---- MODULE Spec2Model ----
(***************************************************************************)
(* A model of the iOS agent's UI-hierarchy core (ios_agent/hierarchy.py)   *)
(* and of the executor that addresses its element list by index            *)
(* (ios_agent/executor.py).                                                *)
(*                                                                         *)
(* The specifications share the variables:                                 *)
(*   SpecTree     - get_ios_elements / traverse_ios_tree on a document     *)
(*   Spec         - IOSExecutor: set_elem_list and the *_by_index methods  *)
(*   SpecFetch    - get_page_source, one step per candidate endpoint       *)
(*   SpecRecorder - IOSRecorder.update_before, one step per turn           *)
(*   SpecCall     - IOSExecutor.__call__ as the task loop uses it          *)
(*   SpecCoords   - the coordinate conversions of actions.py               *)
(*   SpecBounds   - parse_bounds on its two text forms                     *)
(***************************************************************************)
EXTENDS Integers, Sequences, FiniteSets, TLC

VARIABLES
    doc,              \* the markup of the current screen, as handed to get_ios_elements
    clickable_list,   \* get_ios_elements: its local clickable_list when it last returned
    focusable_list,   \* get_ios_elements: its local focusable_list when it last returned
    returned,         \* the lists the last two get_ios_elements calls returned, newest last
    ios_raised,       \* the exception the last get_ios_elements call ended with ("" when it returned)
    elem_list,        \* IOSExecutor.elem_list
    current_return,   \* IOSExecutor.current_return
    last_call,        \* the executor call made last: its arguments, what it raised, what it posted
    fetch_pc,         \* get_page_source: "idle", "loop" (inside the for loop), "done" (it
                      \* returned) or "raised" (an exception left it)
    session_id,       \* get_page_source: its session_id argument
    urls_to_try,      \* get_page_source: its local urls_to_try
    url_idx,          \* get_page_source: position in urls_to_try of the next candidate
    requested,        \* get_page_source: the requests made so far, with their responses
    last_error,       \* get_page_source: its local last_error (<<>> is None)
    page_source,      \* get_page_source: its return value (<<>> is None)
    args,             \* a pure function under check: its arguments
    result,           \* a pure function under check: what it returned (<<>> before the call)
    loop_pc,          \* run_ios_agent.main: "idle", "loop" (at the while test) or "done"
                      \* (after the loop)
    max_rounds,       \* main: args.max_rounds
    round_count,      \* main: its local round_count
    task_complete,    \* main: its local task_complete
    is_finish,        \* IOSExecutor.is_finish
    turn_number,      \* IOSRecorder.turn_number
    contents,         \* IOSRecorder.contents
    trace,            \* the lines of the recorder's trace file
    step_raised       \* the exception the last run_step call ended with ("" when it returned)

treeVars == <<clickable_list, focusable_list, returned, ios_raised>>
execVars == <<elem_list, current_return, last_call>>
fetchVars == <<fetch_pc, session_id, urls_to_try, url_idx, requested, last_error, page_source>>
pureVars == <<args, result>>
loopVars == <<loop_pc, max_rounds, round_count, task_complete, is_finish, turn_number, contents,
              trace, step_raised>>

vars == <<doc, clickable_list, focusable_list, returned, ios_raised, elem_list, current_return, last_call,
          fetch_pc, session_id, urls_to_try, url_idx, requested, last_error, page_source,
          args, result, loop_pc, max_rounds, round_count, task_complete, is_finish,
          turn_number, contents, trace, step_raised>>

-----------------------------------------------------------------------------
(* Bounds of the model *)

\* largest number of nodes of a document
MaxNodes == 3

-----------------------------------------------------------------------------
(* Generic helpers *)

Range(s) == {s[i] : i \in 1..Len(s)}

\* An attribute that the node does not carry (ET's element.get returns its default)
Absent == "<absent>"

\* element.get(key, default)
AttrGet(value, default) == IF value = Absent THEN default ELSE value

\* Python truthiness of an optional string attribute: None and '' are falsy
Truthy(value) == value # Absent /\ value # ""

-----------------------------------------------------------------------------
(* Geometry text.  A numeric token is the text of one comma-separated part:  *)
(*   ok    - float() accepts the text once braces are gone                    *)
(*   v     - the integer int(float(text)) then yields                         *)
(*   brace - the text still carries a '{' or '}' character                    *)
(*   inf   - float() yields an infinity ("inf", "1e999"), which int() rejects  *)
(*           with OverflowError                                                *)

Tok(n) == [ok |-> TRUE, v |-> n, brace |-> FALSE, inf |-> FALSE]
BTok(n) == [ok |-> TRUE, v |-> n, brace |-> TRUE, inf |-> FALSE]
BadTok == [ok |-> FALSE, v |-> 0, brace |-> FALSE, inf |-> FALSE]
InfTok == [ok |-> TRUE, v |-> 0, brace |-> FALSE, inf |-> TRUE]

\* "{{x, y}, {w, h}}": every part of the split text carries a brace
Nested(x, y, w, h) == [nested |-> TRUE, parts |-> <<BTok(x), BTok(y), BTok(w), BTok(h)>>]
\* "x,y,w,h"
Flat(x, y, w, h) == [nested |-> FALSE, parts |-> <<Tok(x), Tok(y), Tok(w), Tok(h)>>]

\* int(float(part.strip())) yields an integer: float() accepts the text and
\* its value is finite
Parses(tok) == tok.ok /\ ~tok.brace /\ ~tok.inf

\* the exception int(float(text)) raises, "" when it raises none
ConversionError(tok) ==
    IF ~tok.ok \/ tok.brace THEN "ValueError"
    ELSE IF tok.inf THEN "OverflowError"
    ELSE ""

\* the braces left in the text
StripBraces_kept(parts) == parts

\* bounds_str.replace("{{","").replace("}}","").replace("{","").replace("}","")
StripBraces(parts) == [i \in 1..Len(parts) |-> [parts[i] EXCEPT !.brace = FALSE]]

\* None, where a rectangle was expected
NoBox == <<>>

\* the four int(float(...)) conversions and the returned rectangle; NoBox when
\* one of them raises (parse_bounds: `except Exception` returns None)
RectOf(parts) ==
    IF \A i \in 1..4 : Parses(parts[i])
    THEN <<<<parts[1].v, parts[2].v>>,
           <<parts[1].v + parts[3].v, parts[2].v + parts[4].v>>>>
    ELSE NoBox

\* parse_bounds(bounds_str); bounds_str is <<>> for the empty string
parse_bounds(bounds_str) ==
    IF bounds_str = <<>> THEN NoBox
    ELSE LET b == bounds_str[1]
             parts == IF b.nested THEN StripBraces(b.parts) ELSE b.parts
         IN IF Len(parts) >= 4 THEN RectOf(parts) ELSE NoBox

-----------------------------------------------------------------------------
(* Nodes of the parsed document.  A node carries the attributes the code     *)
(* reads: tag, enabled, visible, bounds, x, y, width, height, name, label,   *)
(* identifier, index.  bounds is <<>> (attribute missing or '') or <<text>>; *)
(* x, y, width, height are <<>> or <<token>>.                                *)

Node(tag, enabled, visible, bounds, xywh, name, index) ==
    [tag |-> tag, enabled |-> enabled, visible |-> visible, bounds |-> bounds,
     x |-> IF xywh = <<>> THEN <<>> ELSE <<xywh[1]>>,
     y |-> IF xywh = <<>> THEN <<>> ELSE <<xywh[2]>>,
     width |-> IF xywh = <<>> THEN <<>> ELSE <<xywh[3]>>,
     height |-> IF xywh = <<>> THEN <<>> ELSE <<xywh[4]>>,
     name |-> name, label |-> Absent, identifier |-> Absent, index |-> index]

\* the separate-attribute branch of get_element_bounds is reached with all
\* four attributes non-empty
UsesSeparateAttributes(element) ==
    /\ ~(element.bounds # <<>> /\ parse_bounds(element.bounds) # NoBox)
    /\ element.x # <<>> /\ element.y # <<>>
    /\ element.width # <<>> /\ element.height # <<>>

\* the exception the first failing conversion of x, y, width, height raises
FirstConversionError(toks) ==
    IF \A i \in 1..4 : Parses(toks[i]) THEN ""
    ELSE ConversionError(toks[CHOOSE i \in 1..4 :
                                 ~Parses(toks[i]) /\ \A j \in 1..(i - 1) : Parses(toks[j])])

\* the exception get_element_bounds(element) ends with, "" when it returns:
\* `except (ValueError, TypeError)` lets any other exception through
get_element_bounds_exc(element) ==
    IF UsesSeparateAttributes(element)
    THEN LET e == FirstConversionError(<<element.x[1], element.y[1],
                                         element.width[1], element.height[1]>>)
         IN IF e \in {"ValueError", "TypeError"} THEN "" ELSE e
    ELSE ""

\* get_element_bounds(element), when it returns
get_element_bounds(element) ==
    LET bbox == parse_bounds(element.bounds)
    IN IF element.bounds # <<>> /\ bbox # NoBox THEN bbox
       ELSE IF /\ element.x # <<>> /\ element.y # <<>>
               /\ element.width # <<>> /\ element.height # <<>>
            THEN RectOf(<<element.x[1], element.y[1],
                          element.width[1], element.height[1]>>)
            ELSE NoBox

\* the allow-list of is_interactive_element
interactive_types ==
    {"XCUIElementTypeButton", "XCUIElementTypeCell", "XCUIElementTypeTextField",
     "XCUIElementTypeSecureTextField", "XCUIElementTypeSearchField",
     "XCUIElementTypeSlider", "XCUIElementTypeSwitch", "XCUIElementTypeTab",
     "XCUIElementTypeLink", "XCUIElementTypeImage", "XCUIElementTypeIcon",
     "XCUIElementTypeStaticText"}

\* `interactive_type in element_type` is a substring test: over the tags of the
\* model, a tag contains itself, and the tab-bar and table tags contain the Tab one
IsSubstring(needle, tag) ==
    \/ needle = tag
    \/ needle = "XCUIElementTypeTab"
       /\ tag \in {"XCUIElementTypeTabBar", "XCUIElementTypeTable"}

\* the exception is_interactive_element(element) ends with, "" when it returns:
\* the bounds are decoded only once type, enabled and visible have passed
is_interactive_element_exc(element) ==
    IF /\ \E t \in interactive_types : IsSubstring(t, element.tag)
       /\ AttrGet(element.enabled, "true") # "false"
       /\ AttrGet(element.visible, "true") # "false"
    THEN get_element_bounds_exc(element)
    ELSE ""

\* is_interactive_element without the enabled / visible checks
is_interactive_element_no_flags(element) ==
    /\ \E t \in interactive_types : IsSubstring(t, element.tag)
    /\ LET bbox == get_element_bounds(element)
       IN /\ bbox # NoBox
          /\ ~(bbox[2][1] - bbox[1][1] <= 0 \/ bbox[2][2] - bbox[1][2] <= 0)

\* is_interactive_element with the size check reduced to the all-zero check
is_interactive_element_no_size(element) ==
    /\ \E t \in interactive_types : IsSubstring(t, element.tag)
    /\ AttrGet(element.enabled, "true") # "false"
    /\ AttrGet(element.visible, "true") # "false"
    /\ LET bbox == get_element_bounds(element)
       IN /\ bbox # NoBox
          /\ ~(bbox[1][1] = 0 /\ bbox[1][2] = 0 /\ bbox[2][1] = 0 /\ bbox[2][2] = 0)

\* is_interactive_element(element)
is_interactive_element(element) ==
    /\ \E t \in interactive_types : IsSubstring(t, element.tag)
    /\ AttrGet(element.enabled, "true") # "false"
    /\ AttrGet(element.visible, "true") # "false"
    /\ LET bbox == get_element_bounds(element)
       IN /\ bbox # NoBox
          /\ ~(bbox[2][1] - bbox[1][1] <= 0 \/ bbox[2][2] - bbox[1][2] <= 0)
          /\ ~(bbox[1][1] = 0 /\ bbox[1][2] = 0 /\ bbox[2][1] = 0 /\ bbox[2][2] = 0)

\* identifier.replace(' ', '_').replace(':', '_') over the names of the model
Sanitize(name) ==
    CASE name = "Sign in" -> "Sign_in"
      [] name = "a:b" -> "a_b"
      [] OTHER -> name

\* the exception get_element_id(element) ends with, "" when it returns
get_element_id_exc(element) == get_element_bounds_exc(element)

\* get_element_id(element), when it returns
get_element_id(element) ==
    LET bbox == get_element_bounds(element)
        elem_w == IF bbox # NoBox THEN bbox[2][1] - bbox[1][1] ELSE 0
        elem_h == IF bbox # NoBox THEN bbox[2][2] - bbox[1][2] ELSE 0
        identifier == IF Truthy(element.name) THEN element.name
                      ELSE IF Truthy(element.identifier) THEN element.identifier
                      ELSE AttrGet(element.label, "")
    IN IF identifier # ""
       THEN element.tag \o "_" \o Sanitize(identifier)
       ELSE element.tag \o "_" \o ToString(elem_w) \o "_" \o ToString(elem_h)

\* the center both the traversal and the merge compute from a bbox
Center(bbox) == <<(bbox[1][1] + bbox[2][1]) \div 2, (bbox[1][2] + bbox[2][2]) \div 2>>

\* the square of dist: ((cx - ex) ** 2 + (cy - ey) ** 2) ** 0.5 <= r exactly
\* when the sum of squares is <= r * r, the coordinates being integers
DistSq(c, e) == (c[1] - e[1]) * (c[1] - e[1]) + (c[2] - e[2]) * (c[2] - e[2])

-----------------------------------------------------------------------------
(* Documents.  A well-formed document is a tree of at most MaxNodes nodes:   *)
(* node 1 is the root, parent[i] is the parent of node i (0 for the root),   *)
(* and the children of a node stand in the document in ascending order of    *)
(* their numbers.  The numbering is not the traversal order: with            *)
(* parent = <<0, 3, 1>> node 3 is met before node 2.                         *)

RECURSIVE ReachesRoot(_, _, _)
ReachesRoot(p, i, fuel) ==
    \/ i = 1
    \/ fuel > 0 /\ p[i] # 0 /\ ReachesRoot(p, p[i], fuel - 1)

\* the parent vectors of the trees on nodes 1..n rooted at node 1
ParentVectors(n) ==
    {p \in [1..n -> 0..n] : p[1] = 0 /\ \A i \in 2..n : ReachesRoot(p, i, n)}

\* markup that ET.fromstring rejects, the empty string, and a string of
\* white space only
MalformedDoc == [kind |-> "malformed", parent |-> <<>>, nodes |-> <<>>]
EmptyDoc == [kind |-> "empty", parent |-> <<>>, nodes |-> <<>>]
BlankDoc == [kind |-> "blank", parent |-> <<>>, nodes |-> <<>>]

Button == "XCUIElementTypeButton"

\* eligible nodes, with centers (5,5), (8,9), (11,13), (15,5): (8,9) is exactly
\* 5 from (5,5) and from (11,13); (11,13) and (15,5) are exactly 10 from (5,5)
\* and about 8.9 from each other; (15,5) is about 8.1 from (8,9)
GoodProfiles ==
    { Node(Button, Absent, Absent, <<Nested(0, 0, 10, 10)>>, <<>>, "Sign in", "0"),
      Node("XCUIElementTypeCell", Absent, "true", <<>>,
           <<Tok(3), Tok(4), Tok(10), Tok(11)>>, "a:b", Absent),
      Node("XCUIElementTypeTable", Absent, Absent, <<>>,
           <<Tok(6), Tok(8), Tok(10), Tok(10)>>, Absent, "2"),
      Node(Button, "true", "true", <<Flat(10, 0, 10, 10)>>, <<>>, Absent, Absent) }

\* nodes one of the checks of is_interactive_element rejects
BadProfiles ==
    { Node(Button, "false", Absent, <<Flat(30, 30, 10, 10)>>, <<>>, Absent, Absent),
      Node(Button, Absent, "false", <<Flat(30, 30, 10, 10)>>, <<>>, Absent, Absent),
      Node("XCUIElementTypeOther", Absent, Absent, <<Flat(30, 30, 10, 10)>>, <<>>,
           Absent, Absent),
      Node(Button, Absent, Absent, <<Flat(30, 40, 0, 10)>>, <<>>, Absent, Absent),
      Node(Button, Absent, Absent, <<Nested(0, 0, 0, 0)>>, <<>>, Absent, Absent),
      Node(Button, Absent, Absent, <<>>, <<Tok(30), Tok(40), Tok(10), Tok(-2)>>,
           Absent, Absent) }

\* "30,40,10": fewer than four parts
ShortBounds == [nested |-> FALSE, parts |-> <<Tok(30), Tok(40), Tok(10)>>]
\* "inf,40,10,10"
InfBounds == [nested |-> FALSE, parts |-> <<InfTok, Tok(40), Tok(10), Tok(10)>>]

\* nodes whose geometry text decodes to no rectangle: too few parts and a
\* non-numeric x; an infinite part in bounds
UndecodableProfiles ==
    { Node(Button, Absent, Absent, <<ShortBounds>>,
           <<BadTok, Tok(40), Tok(10), Tok(10)>>, Absent, Absent),
      Node(Button, Absent, Absent, <<InfBounds>>, <<>>, Absent, Absent) }

\* nodes whose x attribute is infinite: one of an interactive type, one not
InfiniteProfiles ==
    { Node(Button, Absent, Absent, <<>>, <<InfTok, Tok(40), Tok(10), Tok(10)>>,
           Absent, Absent),
      Node("XCUIElementTypeOther", Absent, Absent, <<>>,
           <<InfTok, Tok(40), Tok(10), Tok(10)>>, Absent, Absent) }

Profiles == GoodProfiles \cup BadProfiles \cup UndecodableProfiles \cup InfiniteProfiles

\* a screen with a button at ((100,100),(200,140)) and a text field at
\* ((102,102),(198,138)) under the application node, in both document orders
OverlapRoot ==
    Node("XCUIElementTypeApplication", Absent, Absent, <<Nested(0, 0, 393, 852)>>, <<>>,
         Absent, Absent)
OverlapButton ==
    Node(Button, Absent, Absent, <<Nested(100, 100, 100, 40)>>, <<>>, Absent, Absent)
OverlapTextField ==
    Node("XCUIElementTypeTextField", Absent, Absent, <<Nested(102, 102, 96, 36)>>, <<>>,
         Absent, Absent)
OverlapDocs ==
    { [kind |-> "xml", parent |-> <<0, 1, 1>>,
       nodes |-> <<OverlapRoot, OverlapButton, OverlapTextField>>],
      [kind |-> "xml", parent |-> <<0, 1, 1>>,
       nodes |-> <<OverlapRoot, OverlapTextField, OverlapButton>>] }

\* the documents SpecTree parses: every tree shape, at most one rejected node
IsTreeDoc(d) ==
    \/ d \in {MalformedDoc, EmptyDoc}
    \/ /\ d.kind = "xml"
       /\ Cardinality({i \in DOMAIN d.nodes : d.nodes[i] \notin GoodProfiles}) <= 1

NodeIds(xml) == 1..Len(xml.nodes)

\* `for child in node`, the children in reverse document order
ChildrenOf_reversed(xml, node) ==
    LET n == Len(xml.nodes)
    IN SelectSeq([k \in 1..n |-> n + 1 - k], LAMBDA j : xml.parent[j] = node)

\* `for child in node`: the children of a node, in document order
ChildrenOf(xml, node) ==
    SelectSeq([k \in 1..Len(xml.nodes) |-> k], LAMBDA j : xml.parent[j] = node)

-----------------------------------------------------------------------------
(* traverse_ios_tree *)

PASS_RADIUS == 5
MERGE_RADIUS == 10

\* the `close` loop of traverse with dist < 5 in place of dist <= 5
close_in_pass_strict(center, elem_list_) ==
    \E i \in 1..Len(elem_list_) :
        DistSq(center, Center(elem_list_[i].bbox)) < PASS_RADIUS * PASS_RADIUS

\* the `close` loop of traverse looking at the element accepted last only
close_in_pass_last_only(center, elem_list_) ==
    /\ elem_list_ # <<>>
    /\ DistSq(center, Center(elem_list_[Len(elem_list_)].bbox))
          <= PASS_RADIUS * PASS_RADIUS

\* the `close` loop of traverse: some element of the list is within the radius
close_in_pass(center, elem_list_) ==
    \E i \in 1..Len(elem_list_) :
        DistSq(center, Center(elem_list_[i].bbox)) <= PASS_RADIUS * PASS_RADIUS

\* IOSElement(...); src_node is not a field of the code's element: it records
\* which node of the document the element was made from
IOSElement(xml, node, path, attrib, add_index) ==
    LET el == xml.nodes[node]
        own_id == get_element_id(el)
        with_parent == IF Len(path) > 1
                       THEN get_element_id(xml.nodes[path[Len(path) - 1]]) \o "_" \o own_id
                       ELSE own_id
        elem_id == IF add_index THEN with_parent \o "_" \o AttrGet(el.index, "0")
                   ELSE with_parent
    IN [uid |-> elem_id, bbox |-> get_element_bounds(el), attrib |-> attrib,
        element_type |-> el.tag, name |-> el.name, label |-> el.label,
        identifier |-> el.identifier, src_node |-> node]

\* the body of traverse for one node, before its children are visited
visit(xml, node, path, elem_list_, attrib, add_index) ==
    LET el == xml.nodes[node]
        bbox == get_element_bounds(el)
    IN IF is_interactive_element(el) /\ bbox # NoBox
          /\ ~close_in_pass(Center(bbox), elem_list_)
       THEN Append(elem_list_, IOSElement(xml, node, path, attrib, add_index))
       ELSE elem_list_

\* the exception the body of traverse ends with for one node, "" when it goes
\* on to the children: from is_interactive_element, or, for a node that is
\* appended, from get_element_id of the node or of its parent
visit_exc(xml, node, path, elem_list_) ==
    LET el == xml.nodes[node]
        bbox == get_element_bounds(el)
    IN IF is_interactive_element_exc(el) # "" THEN is_interactive_element_exc(el)
       ELSE IF is_interactive_element(el) /\ bbox # NoBox
               /\ ~close_in_pass(Center(bbox), elem_list_)
       THEN IF get_element_id_exc(el) # "" THEN get_element_id_exc(el)
            ELSE IF Len(path) > 1
                 THEN get_element_id_exc(xml.nodes[path[Len(path) - 1]])
                 ELSE ""
       ELSE ""

\* a traversal under way: the caller's list as it stands, and the exception
\* that ended the traversal ("" while it runs)
Run(list, raised) == [list |-> list, raised |-> raised]

RECURSIVE traverse(_, _, _, _, _, _)
RECURSIVE traverse_children(_, _, _, _, _, _)

\* traverse(node, path): path = path + [node], the node, then its children; an
\* exception ends the whole traversal
traverse(xml, node, path, run, attrib, add_index) ==
    LET path2 == Append(path, node)
        exc == visit_exc(xml, node, path2, run.list)
    IN IF run.raised # "" THEN run
       ELSE IF exc # "" THEN Run(run.list, exc)
       ELSE traverse_children(xml, ChildrenOf(xml, node), path2,
                              Run(visit(xml, node, path2, run.list, attrib, add_index), ""),
                              attrib, add_index)

traverse_children(xml, kids, path, run, attrib, add_index) ==
    IF kids = <<>> \/ run.raised # "" THEN run
    ELSE traverse_children(xml, Tail(kids), path,
                           traverse(xml, Head(kids), path, run, attrib, add_index),
                           attrib, add_index)

\* traverse_ios_tree letting the parser's exception through
traverse_ios_tree_parse_error_escapes(xml_string, elem_list_, attrib, add_index) ==
    IF xml_string.kind # "xml" THEN Run(elem_list_, "ParseError")
    ELSE traverse(xml_string, 1, <<>>, Run(elem_list_, ""), attrib, add_index)

\* traverse_ios_tree(xml_string, elem_list_, attrib, add_index): the list after
\* the call and the exception it ended with; a document ET.fromstring rejects
\* leaves the list as it was
traverse_ios_tree(xml_string, elem_list_, attrib, add_index) ==
    IF xml_string.kind # "xml" THEN Run(elem_list_, "")
    ELSE traverse(xml_string, 1, <<>>, Run(elem_list_, ""), attrib, add_index)

-----------------------------------------------------------------------------
(* get_ios_elements *)

\* the merge loop appending every focusable element
merge_lists_append_all(clickable_list_, focusable_list_, elem_list_) ==
    elem_list_ \o clickable_list_ \o focusable_list_

close_in_merge_never(center, clickable_list_) == FALSE

\* the `close` loop of the merge: some clickable element is within the radius
close_in_merge(center, clickable_list_) ==
    \E i \in 1..Len(clickable_list_) :
        DistSq(center, Center(clickable_list_[i].bbox)) <= MERGE_RADIUS * MERGE_RADIUS

\* the two merge loops: elem_list_ receives every clickable element, then the
\* focusable elements that are not close to a clickable one
merge_lists(clickable_list_, focusable_list_, elem_list_) ==
    elem_list_ \o clickable_list_
        \o SelectSeq(focusable_list_,
                     LAMBDA elem : ~close_in_merge(Center(elem.bbox), clickable_list_))

\* a merged list that outlives the call (what a module-level list would be)
kept_elem_list == IF returned = <<>> THEN <<>> ELSE returned[Len(returned)]

\* `elem_list = []`
new_elem_list == <<>>

\* the locals of get_ios_elements when it ends; elem_list is its result, raised
\* the exception it ends with instead ("" when it returns)
get_ios_elements_frame(xml_string) ==
    IF xml_string.kind \in {"empty", "blank"}
    THEN [clickable_list |-> <<>>, focusable_list |-> <<>>, elem_list |-> <<>>,
          raised |-> ""]
    ELSE LET cl == traverse_ios_tree(xml_string, <<>>, "clickable", TRUE)
             fl == traverse_ios_tree(xml_string, <<>>, "focusable", TRUE)
         IN IF cl.raised # ""
            THEN [clickable_list |-> cl.list, focusable_list |-> <<>>,
                  elem_list |-> <<>>, raised |-> cl.raised]
            ELSE IF fl.raised # ""
            THEN [clickable_list |-> cl.list, focusable_list |-> fl.list,
                  elem_list |-> <<>>, raised |-> fl.raised]
            ELSE [clickable_list |-> cl.list, focusable_list |-> fl.list,
                  elem_list |-> merge_lists(cl.list, fl.list, new_elem_list),
                  raised |-> ""]

\* get_ios_elements(xml_string), when it returns
get_ios_elements(xml_string) == get_ios_elements_frame(xml_string).elem_list

-----------------------------------------------------------------------------
(* SpecTree: get_ios_elements called again and again on one document *)

InitFetchIdle ==
    /\ fetch_pc = "idle"
    /\ session_id = <<>>
    /\ urls_to_try = <<>>
    /\ url_idx = 1
    /\ requested = <<>>
    /\ last_error = <<>>
    /\ page_source = <<>>

InitPureIdle ==
    /\ args = <<>>
    /\ result = <<>>

InitLoopIdle ==
    /\ loop_pc = "idle"
    /\ max_rounds = 0
    /\ round_count = 0
    /\ task_complete = FALSE
    /\ is_finish = FALSE
    /\ turn_number = 0
    /\ contents = <<>>
    /\ trace = <<>>
    /\ step_raised = ""

InitExecIdle ==
    /\ elem_list = <<>>
    /\ current_return = [operation |-> "none"]
    /\ last_call = [op |-> "none"]

InitTree ==
    /\ \/ \E n \in 1..MaxNodes : \E p \in ParentVectors(n) : \E ns \in [1..n -> Profiles] :
             /\ doc = [kind |-> "xml", parent |-> p, nodes |-> ns]
             /\ IsTreeDoc(doc)
       \/ doc \in {MalformedDoc, EmptyDoc}
       \/ doc \in OverlapDocs
    /\ clickable_list = <<>>
    /\ focusable_list = <<>>
    /\ returned = <<>>
    /\ ios_raised = ""
    /\ InitExecIdle
    /\ InitLoopIdle
    /\ InitPureIdle
    /\ InitFetchIdle

\* the results of the last two calls
Window(rets, r) == IF Len(rets) < 2 THEN Append(rets, r) ELSE <<rets[2], r>>

CallGetIosElements ==
    /\ \E frame \in {get_ios_elements_frame(doc)} :
          /\ ios_raised' = frame.raised
          /\ IF frame.raised # ""
             THEN UNCHANGED <<clickable_list, focusable_list, returned>>
             ELSE /\ clickable_list' = frame.clickable_list
                  /\ focusable_list' = frame.focusable_list
                  /\ returned' = Window(returned, frame.elem_list)
    /\ UNCHANGED <<loopVars, pureVars, doc, execVars, fetchVars>>

NextTree == CallGetIosElements

SpecTree == InitTree /\ [][NextTree]_vars

-----------------------------------------------------------------------------
(* What the claims about the element lists speak of *)

\* a call has returned
Parsed == returned # <<>>
\* the list the last call returned
LastRet == returned[Len(returned)]

\* ancestors of a node, the node included
RECURSIVE AncestorsOrSelf(_, _)
AncestorsOrSelf(xml, n) ==
    IF xml.parent[n] = 0 THEN {n} ELSE {n} \cup AncestorsOrSelf(xml, xml.parent[n])

\* depth-first pre-order, stated on the tree: a is met before b when a is a
\* proper ancestor of b, or when, below their lowest common ancestor, a lies in
\* the subtree of an earlier child than b
Precedes(xml, a, b) ==
    /\ a # b
    /\ \/ a \in AncestorsOrSelf(xml, b)
       \/ /\ b \notin AncestorsOrSelf(xml, a)
          /\ \E ca \in AncestorsOrSelf(xml, a), cb \in AncestorsOrSelf(xml, b) :
                /\ xml.parent[ca] = xml.parent[cb]
                /\ ca < cb

\* the nodes a list's elements were made from
SrcNodes(list) == {list[i].src_node : i \in 1..Len(list)}

\* the floor midpoint of a node's rectangle, from its corners
Mid(bbox) == <<(bbox[1][1] + bbox[2][1]) \div 2, (bbox[1][2] + bbox[2][2]) \div 2>>
NodeMid(q) == Mid(get_element_bounds(doc.nodes[q]))

\* nodes that pass the interactivity check
Candidates == IF doc.kind = "xml"
              THEN {q \in NodeIds(doc) : is_interactive_element(doc.nodes[q])}
              ELSE {}

PassLists == {clickable_list, focusable_list}

\* C2: the returned list is the clickable-pass list in its order, followed by the
\* focusable-pass elements, in their order, whose center is farther than 10 from
\* the center of every clickable-pass element
C2_MergeIsClickableThenFarFocusable ==
    Parsed =>
        LastRet = clickable_list \o
                  SelectSeq(focusable_list,
                            LAMBDA f : \A i \in 1..Len(clickable_list) :
                                DistSq(Mid(f.bbox), Mid(clickable_list[i].bbox)) > 100)

\* the merge ran on two non-empty pass lists
C2_Witness ==
    Parsed /\ Len(clickable_list) >= 2 /\ Len(focusable_list) >= 2

\* C3 as stated: of two candidates whose centers are within the radius 5, the
\* returned list holds at most one, and never the later one of the two
C3_Original_EarlierOfClosePairRetained ==
    Parsed =>
        \A a \in Candidates, b \in Candidates :
            (Precedes(doc, a, b) /\ DistSq(NodeMid(a), NodeMid(b)) <= 25)
                => b \notin SrcNodes(LastRet)

\* C3 amended: of two candidates whose centers are within the radius 5, the
\* returned list holds at most one; it holds the later one only when the earlier
\* one was itself suppressed by a retained candidate met before it
C3_ClosePairAtMostOne ==
    Parsed =>
        \A a \in Candidates, b \in Candidates :
            (Precedes(doc, a, b) /\ DistSq(NodeMid(a), NodeMid(b)) <= 25)
                => /\ ~(a \in SrcNodes(LastRet) /\ b \in SrcNodes(LastRet))
                   /\ b \in SrcNodes(LastRet) =>
                        \E c \in SrcNodes(LastRet) :
                            /\ Precedes(doc, c, a)
                            /\ DistSq(NodeMid(c), NodeMid(a)) <= 25

\* two candidates within the radius, the earlier suppressed, the later retained
C3_Witness ==
    /\ Parsed
    /\ \E a \in Candidates, b \in Candidates :
          /\ Precedes(doc, a, b) /\ DistSq(NodeMid(a), NodeMid(b)) <= 25
          /\ a \notin SrcNodes(LastRet) /\ b \in SrcNodes(LastRet)
    /\ \E a \in Candidates, b \in Candidates :
          /\ Precedes(doc, a, b) /\ DistSq(NodeMid(a), NodeMid(b)) <= 25
          /\ a \in SrcNodes(LastRet)

\* C4: in a pass started on an empty list, a node that passes the interactivity
\* check is in the pass list exactly when its center is farther than 5 from the
\* center of every element accepted before it; any two elements of a pass list
\* have centers more than 5 apart
C4_InPassSuppression ==
    Parsed =>
        \A L \in PassLists :
            /\ \A q \in Candidates :
                  q \in SrcNodes(L) <=>
                      \A k \in 1..Len(L) :
                          Precedes(doc, L[k].src_node, q)
                              => DistSq(NodeMid(q), Mid(L[k].bbox)) > 25
            /\ SrcNodes(L) \subseteq Candidates
            /\ \A i \in 1..Len(L), j \in 1..Len(L) :
                  i # j => DistSq(Mid(L[i].bbox), Mid(L[j].bbox)) > 25

\* one candidate was suppressed at distance exactly 5, another kept
C4_Witness ==
    /\ Parsed
    /\ Len(clickable_list) >= 2
    /\ \E q \in Candidates \ SrcNodes(clickable_list) :
          \E k \in 1..Len(clickable_list) :
              DistSq(NodeMid(q), Mid(clickable_list[k].bbox)) = 25

\* C5: a pass list is in depth-first pre-order of its source nodes (a parent's
\* element before its descendants', an earlier sibling subtree's before a later
\* one's), and the returned list keeps that order
C5_PassListInPreOrder ==
    Parsed =>
        /\ \A L \in PassLists :
              \A i \in 1..Len(L), j \in 1..Len(L) :
                  i < j => Precedes(doc, L[i].src_node, L[j].src_node)
        /\ \A i \in 1..Len(LastRet), j \in 1..Len(LastRet) :
              i < j => Precedes(doc, LastRet[i].src_node, LastRet[j].src_node)

\* a list of three elements: a parent, its child and a later sibling of the child
C5_Witness ==
    /\ Parsed
    /\ Len(clickable_list) >= 3
    /\ \E i \in 1..Len(clickable_list), j \in 1..Len(clickable_list) :
          /\ i < j
          /\ clickable_list[i].src_node \in
                AncestorsOrSelf(doc, clickable_list[j].src_node)
    /\ \E i \in 1..Len(clickable_list), j \in 1..Len(clickable_list) :
          /\ i < j
          /\ doc.parent[clickable_list[i].src_node] = doc.parent[clickable_list[j].src_node]

C7_PositiveArea ==
    Parsed =>
        \A L \in PassLists \cup {LastRet} :
            \A i \in 1..Len(L) :
                /\ L[i].bbox[2][1] > L[i].bbox[1][1]
                /\ L[i].bbox[2][2] > L[i].bbox[1][2]
                /\ L[i].bbox = get_element_bounds(doc.nodes[L[i].src_node])

\* a document with a zero-width, all-zero or negative-height node was parsed and
\* gave elements
C7_Witness ==
    /\ Parsed /\ doc.kind = "xml" /\ Len(LastRet) >= 1
    /\ \E q \in NodeIds(doc) :
          LET b == get_element_bounds(doc.nodes[q])
          IN b # NoBox /\ (b[2][1] <= b[1][1] \/ b[2][2] <= b[1][2])

\* C8: no element comes from a node whose enabled or visible attribute is
\* "false"; a node without these attributes is not rejected for them: with an
\* allow-listed type and a rectangle with area it is an element unless an
\* element accepted before it is within the radius
C8_EnabledVisible ==
    Parsed /\ doc.kind = "xml" =>
        /\ \A L \in PassLists \cup {LastRet} :
              \A i \in 1..Len(L) :
                  /\ doc.nodes[L[i].src_node].enabled # "false"
                  /\ doc.nodes[L[i].src_node].visible # "false"
        /\ \A q \in NodeIds(doc) :
              LET el == doc.nodes[q]
                  b == get_element_bounds(el)
              IN ( /\ el.enabled = Absent \/ el.visible = Absent
                   /\ el.enabled # "false" /\ el.visible # "false"
                   /\ el.tag \in interactive_types
                   /\ b # NoBox /\ b[2][1] > b[1][1] /\ b[2][2] > b[1][2]
                   /\ \A k \in 1..Len(LastRet) :
                         Precedes(doc, LastRet[k].src_node, q)
                             => DistSq(Mid(b), Mid(LastRet[k].bbox)) > 25 )
                 => q \in SrcNodes(LastRet)

\* a document with a disabled or invisible node and with a node that lacks the
\* attributes was parsed, and the latter is an element
C8_Witness ==
    /\ Parsed /\ doc.kind = "xml"
    /\ \E q \in NodeIds(doc) :
          doc.nodes[q].enabled = "false" \/ doc.nodes[q].visible = "false"
    /\ \E i \in 1..Len(LastRet) :
          /\ doc.nodes[LastRet[i].src_node].enabled = Absent
          /\ doc.nodes[LastRet[i].src_node].visible = Absent

-----------------------------------------------------------------------------
(* IOSActionHandler and the coordinate conversions (actions.py) *)

SCALE_FACTOR == 3

\* the logical screen size get_screen_size falls back to
DEFAULT_WIDTH == 375
DEFAULT_HEIGHT == 812

\* int(num / den) for den > 0: float division, then truncation toward zero
IntOfQuotient(num, den) ==
    IF num >= 0 THEN num \div den ELSE -((-num) \div den)

Max2(a, b) == IF a >= b THEN a ELSE b
Min2(a, b) == IF a <= b THEN a ELSE b

\* _physical_to_logical(x, y)
_physical_to_logical(x, y) ==
    <<IntOfQuotient(x, SCALE_FACTOR), IntOfQuotient(y, SCALE_FACTOR)>>

\* _logical_to_physical(x, y)
_logical_to_physical(x, y) == <<x * SCALE_FACTOR, y * SCALE_FACTOR>>

\* The requests IOSActionHandler posts.  A coordinate on the wire is the float
\* x / SCALE_FACTOR: it is kept as the numerator x over the denominator den.
\* IOSActionHandler.tap(x, y)
handler_tap(x, y) ==
    [kind |-> "tap", from |-> <<x, y>>, to |-> <<x, y>>, den |-> SCALE_FACTOR]
\* IOSActionHandler.long_press(x, y)
handler_long_press(x, y) ==
    [kind |-> "long_press", from |-> <<x, y>>, to |-> <<x, y>>, den |-> SCALE_FACTOR]
\* IOSActionHandler.swipe(start_x, start_y, end_x, end_y)
handler_swipe(start_x, start_y, end_x, end_y) ==
    [kind |-> "swipe", from |-> <<start_x, start_y>>, to |-> <<end_x, end_y>>,
     den |-> SCALE_FACTOR]

-----------------------------------------------------------------------------
(* IOSExecutor (executor.py).  A method is modelled by its effect: what it   *)
(* raised ("" when it returned), the requests it posted to the device, and   *)
(* current_return when it ended.                                             *)

Effect(raised, posted, ret) == [raised |-> raised, posted |-> posted, ret |-> ret]

\* IOSExecutor.tap(x, y)
exec_tap(x, y) ==
    Effect("", <<handler_tap(x, y)>>,
           [operation |-> "do", action |-> "Tap", kwargs |-> [element |-> <<x, y>>]])

\* IOSExecutor.long_press(x, y)
exec_long_press(x, y) ==
    Effect("", <<handler_long_press(x, y)>>,
           [operation |-> "do", action |-> "Long Press", kwargs |-> [element |-> <<x, y>>]])

\* {"short": 0.3, "medium": 0.5, "long": 0.7}.get(dist, 0.5), in tenths
dist_multiplier(dist) ==
    CASE dist = "short" -> 3
      [] dist = "medium" -> 5
      [] dist = "long" -> 7
      [] OTHER -> 5

\* IOSExecutor.swipe(x, y, direction, dist), the screen having its default size
exec_swipe(x, y, direction, dist) ==
    LET w == DEFAULT_WIDTH
        h == DEFAULT_HEIGHT
        m == dist_multiplier(dist)
        l == _physical_to_logical(x, y)
        up == Max2(0, IntOfQuotient(10 * l[2] - h * m, 10))
        down == Min2(h, IntOfQuotient(10 * l[2] + h * m, 10))
        left == Max2(0, IntOfQuotient(10 * l[1] - w * m, 10))
        right == Min2(w, IntOfQuotient(10 * l[1] + w * m, 10))
        end_logical == CASE direction = "up" -> <<l[1], up>>
                         [] direction = "down" -> <<l[1], down>>
                         [] direction = "left" -> <<left, l[2]>>
                         [] direction = "right" -> <<right, l[2]>>
                         [] OTHER -> <<l[1], down>>
        end == _logical_to_physical(end_logical[1], end_logical[2])
    IN Effect("", <<handler_swipe(x, y, end[1], end[2])>>,
              [operation |-> "do", action |-> "Swipe",
               kwargs |-> [element |-> <<x, y>>, direction |-> direction, dist |-> dist]])

\* the by-index methods with the assert on the index left out
index_in_range_unchecked(index, n) == TRUE

\* assert 0 < index <= len(self.elem_list)
index_in_range(index, n) == 0 < index /\ index <= n

\* list[k] as Python evaluates it: k counts from 0, a negative k from the end;
\* <<>> stands for IndexError
PyItem(list, k) ==
    IF 0 <= k /\ k < Len(list) THEN <<list[k + 1]>>
    ELSE IF k < 0 /\ -k <= Len(list) THEN <<list[Len(list) + k + 1]>>
    ELSE <<>>

\* what tap_by_index, long_press_by_index and swipe_by_index do before they
\* call tap, long_press or swipe: the exception they raise, or the physical
\* point of the element's center
by_index_point(index) ==
    IF elem_list = <<>> THEN [raised |-> "ValueError", point |-> <<>>]
    ELSE IF ~index_in_range(index, Len(elem_list))
    THEN [raised |-> "AssertionError", point |-> <<>>]
    ELSE LET item == PyItem(elem_list, index - 1)
         IN IF item = <<>> THEN [raised |-> "IndexError", point |-> <<>>]
            ELSE LET tl == item[1].bbox[1]
                     br == item[1].bbox[2]
                 IN [raised |-> "",
                     point |-> _logical_to_physical((tl[1] + br[1]) \div 2,
                                                    (tl[2] + br[2]) \div 2)]

\* the error dictionary tap_by_index stores before it raises ValueError
tap_error_return(index) ==
    [operation |-> "error", action |-> "Tap", kwargs |-> [index |-> index]]

\* IOSExecutor.tap_by_index(index)
tap_by_index_effect(index) ==
    LET p == by_index_point(index)
    IN IF p.raised = "ValueError" THEN Effect(p.raised, <<>>, tap_error_return(index))
       ELSE IF p.raised # "" THEN Effect(p.raised, <<>>, current_return)
       ELSE exec_tap(p.point[1], p.point[2])

\* IOSExecutor.long_press_by_index(index)
long_press_by_index_effect(index) ==
    LET p == by_index_point(index)
    IN IF p.raised # "" THEN Effect(p.raised, <<>>, current_return)
       ELSE exec_long_press(p.point[1], p.point[2])

\* IOSExecutor.swipe_by_index(index, direction, dist)
swipe_by_index_effect(index, direction, dist) ==
    LET p == by_index_point(index)
    IN IF p.raised # "" THEN Effect(p.raised, <<>>, current_return)
       ELSE exec_swipe(p.point[1], p.point[2], direction, dist)

-----------------------------------------------------------------------------
(* Spec: the executor on one screen *)

\* the screens of Spec: a root with its children, all of them eligible nodes
IsExecDoc(d) ==
    \/ d \in {MalformedDoc, EmptyDoc}
    \/ /\ d.kind = "xml"
       /\ \A i \in DOMAIN d.parent : d.parent[i] \in {0, 1}

\* the indexes a caller asks for: from below the list to one beyond its end
Indexes == (-1)..(Len(elem_list) + 1)
Directions == {"up", "down", "left", "right"}
Dists == {"medium"}

Init ==
    /\ \/ \E n \in 1..MaxNodes : \E p \in ParentVectors(n) :
          \E ns \in [1..n -> GoodProfiles] :
             /\ doc = [kind |-> "xml", parent |-> p, nodes |-> ns]
             /\ IsExecDoc(doc)
       \/ doc \in {MalformedDoc, EmptyDoc}
    /\ clickable_list = <<>>
    /\ focusable_list = <<>>
    /\ returned = <<>>
    /\ ios_raised = ""
    /\ InitExecIdle
    /\ InitLoopIdle
    /\ InitPureIdle
    /\ InitFetchIdle

Called(op, index, e) ==
    /\ last_call' = [op |-> op, index |-> index, raised |-> e.raised, posted |-> e.posted]
    /\ current_return' = e.ret

\* IOSExecutor.set_elem_list(xml_path_or_string), the argument being markup
set_elem_list ==
    /\ \E frame \in {get_ios_elements_frame(doc)} :
          /\ elem_list' = IF frame.raised # "" THEN elem_list ELSE frame.elem_list
          /\ last_call' = [op |-> "set_elem_list", index |-> 0, raised |-> frame.raised,
                           posted |-> <<>>]
    /\ UNCHANGED <<loopVars, pureVars, doc, treeVars, current_return, fetchVars>>

tap_by_index ==
    /\ \E index \in Indexes : Called("tap_by_index", index, tap_by_index_effect(index))
    /\ UNCHANGED <<loopVars, pureVars, doc, treeVars, elem_list, fetchVars>>

long_press_by_index ==
    /\ \E index \in Indexes :
          Called("long_press_by_index", index, long_press_by_index_effect(index))
    /\ UNCHANGED <<loopVars, pureVars, doc, treeVars, elem_list, fetchVars>>

swipe_by_index ==
    /\ \E index \in Indexes, direction \in Directions, dist \in Dists :
          Called("swipe_by_index", index, swipe_by_index_effect(index, direction, dist))
    /\ UNCHANGED <<loopVars, pureVars, doc, treeVars, elem_list, fetchVars>>

\* the functions a code snippet may call on an index ("" is the empty snippet)
SnippetFunctions == {"", "tap", "long_press", "swipe"}

\* the dictionary __call__ returns for an empty snippet
skip_return ==
    [operation |-> "skip", action |-> "skip", kwargs |-> [reason |-> "Empty code snippet"]]

\* the dictionary __call__ returns when exec of the snippet raised
call_error_return(exception) ==
    [operation |-> "error", action |-> "error", kwargs |-> [error |-> exception]]

\* exec(code_snippet, {}, local_context) for a snippet of one call: tap is
\* tap_by_index, long_press is long_press_by_index, swipe is swipe_by_index
exec_snippet(fn, index, direction, dist) ==
    CASE fn = "tap" -> tap_by_index_effect(index)
      [] fn = "long_press" -> long_press_by_index_effect(index)
      [] fn = "swipe" -> swipe_by_index_effect(index, direction, dist)

\* IOSExecutor.__call__(code_snippet): `except ValueError` and
\* `except Exception` turn every exception of the snippet into a returned
\* error dictionary
call_effect(fn, index, direction, dist) ==
    IF fn = "" THEN Effect("", <<>>, skip_return)
    ELSE LET e == exec_snippet(fn, index, direction, dist)
         IN IF e.raised # "" THEN Effect("", e.posted, call_error_return(e.raised))
            ELSE e

\* self.page_executor(code_snippet); snippet is the function the snippet calls
__call__ ==
    /\ \E fn \in SnippetFunctions, index \in Indexes :
       \E direction \in IF fn = "swipe" THEN Directions ELSE {"up"}, dist \in Dists :
          LET e == call_effect(fn, index, direction, dist)
          IN /\ last_call' = [op |-> "__call__", index |-> index, raised |-> e.raised,
                              posted |-> e.posted, snippet |-> fn]
             /\ current_return' = e.ret
    /\ UNCHANGED <<loopVars, pureVars, doc, treeVars, elem_list, fetchVars>>

Next ==
    \/ set_elem_list
    \/ tap_by_index
    \/ long_press_by_index
    \/ swipe_by_index

Spec == Init /\ [][Next]_vars

ByIndexOps == {"tap_by_index", "long_press_by_index", "swipe_by_index"}

\* C1: tap_by_index, long_press_by_index and swipe_by_index called with index 0,
\* a negative index or index n+1 on a list of length n raise and post nothing to
\* the device; called with index n >= 1 they return and act on the center of
\* the last element of the list
C1_IndexBounds ==
    last_call.op \in ByIndexOps =>
        LET n == Len(elem_list)
            i == last_call.index
        IN /\ (i <= 0 \/ i = n + 1) =>
                 last_call.raised # "" /\ last_call.posted = <<>>
           /\ (n >= 1 /\ i = n) =>
                 /\ last_call.raised = ""
                 /\ Len(last_call.posted) = 1
                 /\ last_call.posted[1].from[1] = last_call.posted[1].den * Mid(elem_list[n].bbox)[1]
                 /\ last_call.posted[1].from[2] = last_call.posted[1].den * Mid(elem_list[n].bbox)[2]

\* on a list of three elements, index 3 was swiped
C1_Witness ==
    /\ last_call.op = "swipe_by_index"
    /\ Len(elem_list) = 3
    /\ last_call.index = 3
    /\ last_call.raised = ""

(***************************************************************************)
(* get_page_source (hierarchy.py): text.                                   *)
(* A text is a sequence of characters.  The characters the code tests for  *)
(* are named: SP space, NL newline, TAB, CR, BS backslash, DQ double       *)
(* quote, SQ single quote; every other character stands for itself.        *)
(***************************************************************************)
Whitespace == {"SP", "NL", "TAB", "CR"}

RECURSIVE LStrip(_)
LStrip(s) ==
    IF s # <<>> /\ Head(s) \in Whitespace THEN LStrip(Tail(s)) ELSE s

RECURSIVE RStrip(_)
RStrip(s) ==
    IF s # <<>> /\ s[Len(s)] \in Whitespace THEN RStrip(SubSeq(s, 1, Len(s) - 1)) ELSE s

\* str.strip()
Strip(s) == RStrip(LStrip(s))

\* str.startswith / str.endswith with a one-character argument
StartsWith(s, c) == s # <<>> /\ s[1] = c
EndsWith(s, c) == s # <<>> /\ s[Len(s)] = c

\* source[1:-1]
Slice1Minus1(s) == SubSeq(s, 2, Len(s) - 1)

\* lines 90-92: one layer of surrounding quotes is removed
strip_quotes(s) ==
    IF (StartsWith(s, "DQ") /\ EndsWith(s, "DQ")) \/ (StartsWith(s, "SQ") /\ EndsWith(s, "SQ"))
    THEN Slice1Minus1(s)
    ELSE s

\* str.replace of the two-character text <<BS, c>> by the character to
RECURSIVE Replace2(_, _, _)
Replace2(s, c, to) ==
    IF Len(s) < 2 THEN s
    ELSE IF s[1] = "BS" /\ s[2] = c
         THEN <<to>> \o Replace2(SubSeq(s, 3, Len(s)), c, to)
         ELSE <<s[1]>> \o Replace2(Tail(s), c, to)

\* lines 95-96
unescape(s) ==
    Replace2(Replace2(Replace2(Replace2(Replace2(s, "n", "NL"), "t", "TAB"), "r", "CR"),
                      "DQ", "DQ"), "SQ", "SQ")

XmlDecl == <<"<", "?", "x", "m", "l">>
PREVIEW == 100

\* needle in s[:PREVIEW]
InPrefix(needle, s) ==
    LET w == SubSeq(s, 1, Min2(PREVIEW, Len(s)))
    IN \E k \in 1..(Len(w) - Len(needle) + 1) : SubSeq(w, k, k + Len(needle) - 1) = needle

\* lines 100 and 126: text.startswith('<') or '<?xml' in text[:100]
looks_like_xml(text) == StartsWith(text, "<") \/ InPrefix(XmlDecl, text)

(***************************************************************************)
(* Decoded JSON.  A value has a type t; a str carries its text in s; a     *)
(* number or a list carries its str() rendering in s and its truth value;  *)
(* a dict carries the entries under "value" and "source" (<<>> when the    *)
(* key is missing, <<v>> otherwise).                                       *)
(***************************************************************************)
J(t, s, truthy, value, source) ==
    [t |-> t, s |-> s, truthy |-> truthy, value |-> value, source |-> source]

JNone == J("null", <<>>, FALSE, <<>>, <<>>)
JStr(s) == J("str", s, s # <<>>, <<>>, <<>>)
JNum(n) == J("num", <<ToString(n)>>, n # 0, <<>>, <<>>)
JList(rendering, nonempty) == J("list", rendering, nonempty, <<>>, <<>>)
JDict(value, source) == J("dict", <<>>, value # <<>> \/ source # <<>>, value, source)

\* dict.get(key)
JGetValue(d) == IF d.value = <<>> THEN JNone ELSE d.value[1]
JGetSource(d) == IF d.source = <<>> THEN JNone ELSE d.source[1]

\* a or b
PyOr(a, b) == IF a.truthy THEN a ELSE b

\* source.get("source") or source.get("value")
source_or_value(d) == PyOr(JGetSource(d), JGetValue(d))

\* lines 59-84: the value the code takes for the page source
extract_source(data) ==
    IF data.t = "dict"
    THEN LET s1 == JGetValue(data)
             s2 == IF s1.t = "dict" THEN source_or_value(s1) ELSE s1
             s3 == IF s2.t = "null" THEN JGetSource(data) ELSE s2
             s4 == IF s3.t = "null" /\ JGetValue(data).t = "dict"
                   THEN JGetSource(JGetValue(data)) ELSE s3
         IN IF s4.t = "dict" THEN source_or_value(s4) ELSE s4
    ELSE IF data.truthy THEN JStr(data.s) ELSE JNone

\* line 87
usable_source(source) == source.truthy /\ source.t = "str" /\ Len(Strip(source.s)) > 0

\* lines 89-96
clean_source(s) == unescape(strip_quotes(Strip(s)))

(***************************************************************************)
(* get_page_source: what a request can come back with.                     *)
(***************************************************************************)
XML == <<"<", "a", "/", ">">>
XML_PADDED == <<"SP", "<", "a", "/", ">", "NL">>
XML_QUOTED == <<"DQ", "<", "a", "/", ">", "DQ">>
XML_ESCAPED == <<"<", "a", ">", "BS", "n", "<", "/", "a", ">">>
XML_DECL_LATE == <<"x", "<", "?", "x", "m", "l", "?", ">">>
JUNK == <<"o", "k">>
BLANK == <<"SP">>
EMPTY == <<>>

Texts == {XML, XML_PADDED, XML_QUOTED, XML_ESCAPED, XML_DECL_LATE, JUNK, BLANK, EMPTY}

\* response.json() succeeded with data; response.text is not consulted
JsonBody(data) == [json |-> <<data>>, text |-> <<>>]
\* response.json() raised ValueError; response.text is text
TextBody(text) == [json |-> <<>>, text |-> text]

JsonDatas ==
    {JDict(<<JStr(t)>>, <<>>) : t \in Texts}
    \cup {JDict(<<JDict(<<>>, <<JStr(XML)>>)>>, <<>>),
          JDict(<<JDict(<<JStr(XML)>>, <<>>)>>, <<>>),
          JDict(<<JDict(<<>>, <<JDict(<<JStr(XML)>>, <<>>)>>)>>, <<>>),
          JDict(<<JDict(<<>>, <<>>)>>, <<>>),
          JDict(<<>>, <<JStr(XML)>>),
          JDict(<<JNone>>, <<JStr(XML)>>),
          JDict(<<JStr(EMPTY)>>, <<JStr(XML)>>),
          JDict(<<JNum(0)>>, <<>>),
          JDict(<<>>, <<>>),
          JStr(XML), JNone, JNum(0),
          JList(<<"[", "SQ", "<", "a", "/", ">", "SQ", "]">>, TRUE)}

Bodies ==
    {JsonBody(d) : d \in JsonDatas} \cup {TextBody(t) : t \in {XML, XML_PADDED, XML_DECL_LATE, JUNK, BLANK, EMPTY}}

HttpResponse(status, body) == [kind |-> "response", status |-> status, body |-> body]
Raised(exception) == [kind |-> exception, status |-> 0, body |-> TextBody(EMPTY)]

ErrorStatuses == {404, 500, 503, 204}

Responses ==
    {HttpResponse(200, b) : b \in Bodies}
    \cup {HttpResponse(st, TextBody(JUNK)) : st \in ErrorStatuses}
    \cup {Raised(e) : e \in {"Timeout", "ConnectionError", "Exception"}}

(***************************************************************************)
(* get_page_source: the endpoints and the body of the for loop.            *)
(***************************************************************************)
WDA_URL == "http://localhost:8100"

\* f"{wda_url.rstrip('/')}/session/{session_id}/source"
session_endpoint(sid) == WDA_URL \o "/session/" \o sid \o "/source"
\* f"{wda_url.rstrip('/')}/source"
source_endpoint == WDA_URL \o "/source"

None == <<>>
Some(x) == <<x>>

\* if session_id:
session_given(sid) == sid # None /\ sid[1] # ""

build_urls_fallback_first(sid) ==
    <<source_endpoint>> \o (IF session_given(sid) THEN <<session_endpoint(sid[1])>> ELSE <<>>)

\* lines 44-48
build_urls(sid) ==
    (IF session_given(sid) THEN <<session_endpoint(sid[1])>> ELSE <<>>) \o <<source_endpoint>>

Return(value) == [op |-> "return", value |-> value, error |-> None]
Continue(error) == [op |-> "continue", value |-> None, error |-> error]
\* an exception leaves the block
Raise(exception) == [op |-> "raise", value |-> None, error |-> Some(exception)]

\* lines 152-168: the except clauses of the loop body (Timeout,
\* ConnectionError, Exception); each records the error and continues
except_clauses(exception) == Continue(Some(exception))

\* lines 179-186: the except clauses of the function body (ImportError,
\* Exception); each returns None
outer_except(exception) == Return(None)

\* lines 56-133: a response with status 200
on_status_200(body) ==
    IF body.json # <<>>
    THEN LET source == extract_source(body.json[1])
         IN IF usable_source(source)
            THEN Return(Some(clean_source(source.s)))
            ELSE Continue(None)
    ELSE IF body.text # <<>> /\ Len(Strip(body.text)) > 0
         THEN IF looks_like_xml(Strip(body.text))
              THEN Return(Some(Strip(body.text)))
              ELSE Continue(None)
         ELSE Continue(None)

try_url_stop_on_404(resp) ==
    IF resp.kind = "response"
    THEN CASE resp.status = 200 -> on_status_200(resp.body)
           [] resp.status = 404 -> Return(None)
           [] resp.status = 500 -> Continue(Some("Server error (500)"))
           [] OTHER -> Continue(Some("HTTP " \o ToString(resp.status)))
    ELSE except_clauses(resp.kind)

\* the loop body returning the body of an answer whose status it does not know
try_url_return_error_body(resp) ==
    IF resp.kind = "response"
    THEN CASE resp.status = 200 -> on_status_200(resp.body)
           [] resp.status = 404 -> Continue(None)
           [] resp.status = 500 -> Continue(Some("Server error (500)"))
           [] OTHER -> Return(Some(resp.body.text))
    ELSE except_clauses(resp.kind)

\* the loop body with the 500 branch not recording its error
try_url_500_unrecorded(resp) ==
    IF resp.kind = "response"
    THEN CASE resp.status = 200 -> on_status_200(resp.body)
           [] resp.status = 404 -> Continue(None)
           [] resp.status = 500 -> Continue(None)
           [] OTHER -> Continue(Some("HTTP " \o ToString(resp.status)))
    ELSE except_clauses(resp.kind)

\* lines 52-168: one turn of the for loop, given what requests.get came back with
try_url(resp) ==
    IF resp.kind = "response"
    THEN CASE resp.status = 200 -> on_status_200(resp.body)
           [] resp.status = 404 -> Continue(None)
           [] resp.status = 500 -> Continue(Some("Server error (500)"))
           [] OTHER -> Continue(Some("HTTP " \o ToString(resp.status)))
    ELSE except_clauses(resp.kind)

(***************************************************************************)
(* get_page_source as steps: the call, one request per candidate, the end  *)
(* of the loop.                                                            *)
(***************************************************************************)
SessionIds == {None, Some(""), Some("S1")}

InitFetch ==
    /\ doc = EmptyDoc
    /\ clickable_list = <<>>
    /\ focusable_list = <<>>
    /\ returned = <<>>
    /\ ios_raised = ""
    /\ InitExecIdle
    /\ InitLoopIdle
    /\ InitPureIdle
    /\ InitFetchIdle

\* lines 40-50
get_page_source_call ==
    /\ fetch_pc \in {"idle", "done", "raised"}
    /\ \E sid \in SessionIds :
        /\ session_id' = sid
        /\ urls_to_try' = build_urls(sid)
    /\ url_idx' = 1
    /\ requested' = <<>>
    /\ last_error' = None
    /\ page_source' = None
    /\ fetch_pc' = "loop"
    /\ UNCHANGED <<loopVars, pureVars, doc, treeVars, execVars>>

\* lines 51-168
get_page_source_request ==
    /\ fetch_pc = "loop"
    /\ url_idx <= Len(urls_to_try)
    /\ \E resp \in Responses :
        LET url == urls_to_try[url_idx]
            tried == try_url(resp)
            out == IF tried.op = "raise" THEN outer_except(tried.error[1]) ELSE tried
        IN /\ requested' = Append(requested, [url |-> url, resp |-> resp])
           /\ IF out.op = "raise"
              THEN /\ fetch_pc' = "raised"
                   /\ UNCHANGED <<url_idx, last_error, page_source>>
              ELSE IF out.op = "return"
              THEN /\ page_source' = out.value
                   /\ fetch_pc' = "done"
                   /\ UNCHANGED <<url_idx, last_error>>
              ELSE /\ url_idx' = url_idx + 1
                   /\ last_error' = IF out.error # None THEN Some([msg |-> out.error[1], url |-> url])
                                    ELSE last_error
                   /\ UNCHANGED <<page_source, fetch_pc>>
    /\ UNCHANGED <<loopVars, pureVars, doc, treeVars, execVars, session_id, urls_to_try>>

\* lines 170-177
get_page_source_exhausted ==
    /\ fetch_pc = "loop"
    /\ url_idx > Len(urls_to_try)
    /\ page_source' = None
    /\ fetch_pc' = "done"
    /\ UNCHANGED <<loopVars, pureVars, doc, treeVars, execVars, session_id, urls_to_try, url_idx, requested, last_error>>

NextFetch ==
    \/ get_page_source_call
    \/ get_page_source_request
    \/ get_page_source_exhausted

SpecFetch == InitFetch /\ [][NextFetch]_vars

(***************************************************************************)
(* Claims about get_page_source.                                           *)
(***************************************************************************)
RequestedUrls == [k \in 1..Len(requested) |-> requested[k].url]

\* C9: with a session token the session-scoped endpoint is requested first and
\* the session-less endpoint only after it, and only while no document has
\* been obtained; without a token only the session-less endpoint is
\* requested; no endpoint is requested twice in one call.
C9_EndpointOrder ==
    /\ [](fetch_pc # "idle" =>
            /\ \A j, k \in 1..Len(requested) : j # k => requested[j].url # requested[k].url
            /\ IF session_given(session_id)
               THEN \/ RequestedUrls = <<>>
                    \/ RequestedUrls = <<session_endpoint(session_id[1])>>
                    \/ RequestedUrls = <<session_endpoint(session_id[1]), source_endpoint>>
               ELSE RequestedUrls \in {<<>>, <<source_endpoint>>})
    /\ [][Len(requested') > Len(requested) => (page_source = None /\ fetch_pc = "loop")]_vars

C9_Witness ==
    /\ session_given(session_id)
    /\ Len(requested) = 2
    /\ requested[2].url = source_endpoint
    /\ fetch_pc = "done"
    /\ page_source # None

\* the payload of a 200 answer: the text itself, or the source carried by the JSON
Payload(resp) ==
    IF resp.body.json = <<>> THEN Strip(resp.body.text)
    ELSE IF usable_source(extract_source(resp.body.json[1]))
         THEN clean_source(extract_source(resp.body.json[1]).s)
         ELSE EMPTY

MarkupAnswer(resp) ==
    /\ resp.kind = "response"
    /\ resp.status = 200
    /\ Payload(resp) # EMPTY
    /\ looks_like_xml(Strip(Payload(resp)))

FailureAnswer(resp) ==
    \/ resp.kind \in {"Timeout", "ConnectionError"}
    \/ resp.kind = "response" /\ (resp.status = 404 \/ resp.status \in 500..599)

\* C10: a candidate answering 200 with a non-empty payload that looks like
\* markup is the last one requested and its payload is the result; a candidate
\* answering 404, 5xx, timeout or connection error does not end the call, and
\* the next candidate, when there is one, is tried.
C10_FirstMarkupAnswerWins ==
    \A k \in 1..Len(requested) :
        LET resp == requested[k].resp
        IN /\ MarkupAnswer(resp) =>
                /\ k = Len(requested)
                /\ fetch_pc = "done"
                /\ page_source = Some(Payload(resp))
           /\ FailureAnswer(resp) =>
                /\ k = Len(requested) => (fetch_pc = "loop" /\ url_idx = k + 1) \/ (fetch_pc = "done" /\ k = Len(urls_to_try) /\ page_source = None)
                /\ k < Len(urls_to_try) /\ fetch_pc = "done" => Len(requested) > k

C10_Witness ==
    /\ Len(requested) = 2
    /\ requested[1].resp.kind = "Timeout"
    /\ MarkupAnswer(requested[2].resp)
    /\ requested[2].resp.body.json # <<>>
    /\ page_source = Some(XML)

\* the candidate did not answer, or answered with a status other than 200
CandidateFailed(resp) == resp.kind # "response" \/ resp.status # 200

\* C11: get_page_source never ends with an exception, and when it has ended
\* and every candidate it requested failed (timeout, connection error, another
\* exception of the request, or a status other than 200) it has returned None.
C11_AllFailedReturnsNone ==
    /\ fetch_pc # "raised"
    /\ (fetch_pc = "done" /\ \A k \in 1..Len(requested) : CandidateFailed(requested[k].resp))
          => page_source = None

C11_Witness ==
    /\ fetch_pc = "done"
    /\ Len(requested) = 2
    /\ requested[1].resp.kind = "Exception"
    /\ requested[2].resp.kind = "response" /\ requested[2].resp.status = 503
    /\ page_source = None

\* the call has failed with every candidate tried
OverallFailure ==
    /\ fetch_pc = "done"
    /\ page_source = None
    /\ Len(requested) = Len(urls_to_try)
    /\ requested # <<>>

\* timeout, connection error or a status outside 200..299
TransportFailure(resp) ==
    \/ resp.kind \in {"Timeout", "ConnectionError"}
    \/ resp.kind = "response" /\ resp.status \notin 200..299

\* a failure the loop body records: an exception of the request, or a status
\* other than 200 and 404
RecordedFailure(resp) ==
    \/ resp.kind # "response"
    \/ resp.status \notin {200, 404}

\* C12 as stated: whenever the call fails with every candidate failed by
\* timeout, connection error or non-2xx status, last_error is not None and
\* names one of the candidates requested in this call.
C12_Original_LastErrorAlwaysRecorded ==
    (OverallFailure /\ \A k \in 1..Len(requested) : TransportFailure(requested[k].resp))
        => /\ last_error # None
           /\ \E k \in 1..Len(requested) : last_error[1].url = requested[k].url

\* C12 amended: when the call fails and some candidate failed otherwise than by
\* 404 (or by a 200 without usable payload), last_error is the failure of the
\* last such candidate; when none did, last_error is None.
C12_LastErrorIsLastRecordedFailure ==
    OverallFailure =>
        LET rec == {k \in 1..Len(requested) : RecordedFailure(requested[k].resp)}
        IN IF rec = {} THEN last_error = None
           ELSE LET k == CHOOSE j \in rec : \A i \in rec : i <= j
                    resp == requested[k].resp
                IN /\ last_error # None
                   /\ last_error[1].url = requested[k].url
                   /\ last_error[1].msg =
                        (IF resp.kind # "response" THEN resp.kind
                         ELSE IF resp.status = 500 THEN "Server error (500)"
                         ELSE "HTTP " \o ToString(resp.status))

C12_Witness ==
    /\ OverallFailure
    /\ Len(requested) = 2
    /\ requested[1].resp.kind = "response" /\ requested[1].resp.status = 500
    /\ requested[2].resp.kind = "response" /\ requested[2].resp.status = 404
    /\ last_error # None
    /\ last_error[1].url = requested[1].url

\* an answer with status 200 whose payload is not empty and does not look like
\* markup; the payload is the source found in the JSON body, or the raw body
NonMarkupAnswer(resp) ==
    /\ resp.kind = "response"
    /\ resp.status = 200
    /\ Payload(resp) # EMPTY
    /\ ~looks_like_xml(Strip(Payload(resp)))

\* C13: a non-empty payload of a 200 answer that does not look like markup is
\* returned all the same, whether it came out of a JSON body or is the raw body
\* of an answer that is not JSON.
C13_NonMarkupPayloadReturned ==
    \A k \in 1..Len(requested) :
        NonMarkupAnswer(requested[k].resp) =>
            /\ k = Len(requested)
            /\ fetch_pc = "done"
            /\ page_source = Some(Payload(requested[k].resp))

\* the JSON half of C13, which the code keeps
C13_JsonNonMarkupReturned ==
    \A k \in 1..Len(requested) :
        (NonMarkupAnswer(requested[k].resp) /\ requested[k].resp.body.json # <<>>) =>
            /\ k = Len(requested)
            /\ fetch_pc = "done"
            /\ page_source = Some(Payload(requested[k].resp))

\* a field holds markup when it is a string that is not blank
HoldsMarkup(field) == field.t = "str" /\ Strip(field.s) # EMPTY

\* the payload of a JSON object as C14 words it: "value" when it is a string;
\* when "value" is an object its "source", else its "value"; the top-level
\* "source" whenever "value" yields no markup
PayloadByFieldOrder(data) ==
    LET value == JGetValue(data)
        fromValue == IF value.t = "dict"
                     THEN IF HoldsMarkup(JGetSource(value)) THEN JGetSource(value)
                          ELSE JGetValue(value)
                     ELSE value
    IN IF HoldsMarkup(fromValue) THEN fromValue ELSE JGetSource(data)

\* C14: the payload get_page_source takes from a JSON object is the one the
\* field order above names: when that is markup, the call returns it.
C14_PayloadByFieldOrder ==
    \A k \in 1..Len(requested) :
        LET resp == requested[k].resp
        IN (/\ resp.kind = "response" /\ resp.status = 200
            /\ resp.body.json # <<>>
            /\ resp.body.json[1].t = "dict"
            /\ HoldsMarkup(PayloadByFieldOrder(resp.body.json[1])))
           => /\ k = Len(requested)
              /\ fetch_pc = "done"
              /\ page_source = Some(clean_source(PayloadByFieldOrder(resp.body.json[1]).s))

(***************************************************************************)
(* Claims about geometry that does not decode and markup that does not     *)
(* parse.                                                                  *)
(***************************************************************************)
\* the node carries geometry text and none of it is four finite numbers
GeometryUndecodable(el) ==
    /\ el.bounds # <<>> \/ el.x # <<>>
    /\ el.bounds # <<>> =>
          \/ Len(el.bounds[1].parts) < 4
          \/ \E i \in 1..4 : ~el.bounds[1].parts[i].ok \/ el.bounds[1].parts[i].inf
    /\ el.x # <<>> =>
          \E t \in {el.x[1], el.y[1], el.width[1], el.height[1]} : ~t.ok \/ t.inf

UndecodableNodes ==
    IF doc.kind = "xml" THEN {q \in NodeIds(doc) : GeometryUndecodable(doc.nodes[q])} ELSE {}

\* C15: a node whose geometry does not decode is only left out: no call of
\* get_ios_elements ends with an exception, the node is in no list, and every
\* node that qualifies is in the clickable list unless an element accepted
\* before it lies within the radius.
C15_UndecodableNodeOnlyExcluded ==
    /\ ios_raised = ""
    /\ Parsed =>
          /\ UndecodableNodes \cap SrcNodes(LastRet) = {}
          /\ \A q \in Candidates :
                \/ q \in SrcNodes(clickable_list)
                \/ \E k \in 1..Len(clickable_list) :
                      DistSq(NodeMid(q), Mid(clickable_list[k].bbox)) <= 25

\* what holds of the code: parse_bounds never raises, and when the call
\* returns, the nodes whose geometry does not decode are left out and the
\* others are treated as ever
C15_ReturnedListLeavesUndecodableOut ==
    Parsed =>
        /\ UndecodableNodes \cap SrcNodes(LastRet) = {}
        /\ \A q \in Candidates :
              \/ q \in SrcNodes(clickable_list)
              \/ \E k \in 1..Len(clickable_list) :
                    DistSq(NodeMid(q), Mid(clickable_list[k].bbox)) <= 25

\* C16: on markup that is not well-formed, or empty, no call of
\* get_ios_elements ends with an exception, both passes leave their lists
\* empty and the call returns the empty list.
C16_MalformedMarkupGivesEmptyList ==
    doc.kind # "xml" =>
        /\ ios_raised = ""
        /\ Parsed => (LastRet = <<>> /\ clickable_list = <<>> /\ focusable_list = <<>>)

C16_Witness ==
    /\ doc.kind = "malformed"
    /\ Len(returned) = 2
    /\ returned[2] = <<>>
    /\ ios_raised = ""

-----------------------------------------------------------------------------
(* IOSRecorder.update_before: the element list of a turn.  A text is None or *)
(* Some(document).  The screenshot of step 2 and the labeled image of step 4 *)
(* are the work of collaborators outside this development and leave the      *)
(* element list alone.  The recorder's xml directory is its own              *)
(* (run_ios_agent.py names it after the start time), so the file of a turn   *)
(* exists only if this turn wrote it, and no retrieved text names a file.    *)

\* `if xml_string:` - None and the empty string are false
truthy(xml_string) == xml_string # None /\ xml_string[1].kind # "empty"

\* `xml_string and len(xml_string.strip()) > 0`
not_blank(xml_string) ==
    xml_string # None /\ xml_string[1].kind \notin {"empty", "blank"}

\* what get_page_source may hand back while the device shows screen: nothing,
\* the markup of the screen, or a payload that is no markup
Fetched(screen) == {None, Some(screen), Some(MalformedDoc), Some(EmptyDoc), Some(BlankDoc)}

\* IOSController.get_xml: the status it returns and the file it leaves (None
\* when it wrote none); a failed write is only a warning
get_xml(xml_string, write_ok) ==
    IF truthy(xml_string)
    THEN [status |-> "SUCCESS", file |-> IF write_ok THEN xml_string ELSE None]
    ELSE [status |-> "ERROR", file |-> None]

\* step 3, reading the saved file: None without a path or a file, on a read
\* error and on a blank file
read_saved(xml_path, file, read_ok) ==
    IF xml_path /\ file # None /\ read_ok /\ not_blank(file) THEN file ELSE None

\* every exception of the model is an Exception to `except Exception`
IsException(exception) == exception # ""

elem_list_cleared_kept == elem_list

\* `self.page_executor.elem_list = []`
elem_list_cleared == <<>>

\* step 3, from "Parse XML and set element list": the list the executor is
\* left with and the exception that leaves update_before; frame is what
\* get_ios_elements does on the text when set_elem_list is reached
parse_and_set(xml_string, frame) ==
    IF not_blank(xml_string)
    THEN IF frame.raised = ""
         THEN [elem_list |-> frame.elem_list, raised |-> ""]
         ELSE IF IsException(frame.raised)
         THEN [elem_list |-> elem_list_cleared, raised |-> ""]
         ELSE [elem_list |-> elem_list, raised |-> frame.raised]
    ELSE [elem_list |-> elem_list_cleared, raised |-> ""]

\* the screens of SpecRecorder: a root alone or with one child, buttons that
\* are eligible and at most one whose x attribute is infinite
MaxScreenNodes == 2

TurnProfiles == {n \in GoodProfiles \cup InfiniteProfiles : n.tag = Button}

IsTurnDoc(d) ==
    /\ d.kind = "xml"
    /\ \A i \in DOMAIN d.parent : d.parent[i] \in {0, 1}
    /\ Cardinality({i \in DOMAIN d.nodes : d.nodes[i] \notin GoodProfiles}) <= 1

Screens ==
    {d \in UNION {[kind : {"xml"}, parent : ParentVectors(n), nodes : [1..n -> TurnProfiles]] :
                     n \in 1..MaxScreenNodes} : IsTurnDoc(d)}

\* IOSRecorder.update_before(controller, ...) on the screen the device shows
\* now: first is what get_page_source returns to get_xml, second what it
\* returns to the direct fetch of step 3 when that is reached; frames holds
\* what get_ios_elements does on each text that can reach set_elem_list.
\* parsed is the text handed to set_elem_list (None when none was), before
\* the length of the element list the call found.  The quantifiers over one
\* value name the locals of the handler in the order it assigns them.
labeled_elem_list_without_last(elem_list_) ==
    SubSeq(elem_list_, 1, Len(elem_list_) - 1)

\* step 4: the elem_list argument handed to draw_bbox_multi_ios, which numbers
\* its elements from 1 and leaves the list as it is (result holds it)
labeled_elem_list(elem_list_) == elem_list_

update_before ==
    /\ \E screen \in Screens :
       \E frames \in {[text \in {screen, MalformedDoc, EmptyDoc, BlankDoc} |->
                           get_ios_elements_frame(text)]} :
       \E first \in Fetched(screen) :
       \E write_ok \in IF truthy(first) THEN BOOLEAN ELSE {FALSE} :
       \E read_ok \in IF write_ok THEN BOOLEAN ELSE {FALSE} :
       \E saved \in {get_xml(first, write_ok)} :
       \E from_file \in {read_saved(saved.status = "SUCCESS", saved.file, read_ok)} :
       \E second \in IF from_file = None THEN Fetched(screen) ELSE {None} :
       \E xml_string \in {IF from_file = None THEN second ELSE from_file} :
       \E frame \in {frames[IF not_blank(xml_string) THEN xml_string[1] ELSE EmptyDoc]} :
       \E out \in {parse_and_set(xml_string, frame)} :
          /\ doc' = screen
          /\ elem_list' = out.elem_list
          /\ last_call' = [op |-> "update_before", index |-> 0, raised |-> out.raised,
                           posted |-> <<>>, before |-> Len(elem_list),
                           parsed |-> IF not_blank(xml_string) THEN xml_string ELSE None]
          /\ result' = labeled_elem_list(out.elem_list)
    /\ UNCHANGED <<loopVars, args, treeVars, current_return, fetchVars>>

\* IOSExecutor() has an empty element list until the first turn
InitRecorder ==
    /\ doc \in Screens
    /\ InitExecIdle
    /\ InitLoopIdle
    /\ InitPureIdle
    /\ clickable_list = <<>>
    /\ focusable_list = <<>>
    /\ returned = <<>>
    /\ ios_raised = ""
    /\ InitFetchIdle

NextRecorder ==
    \/ update_before
    \/ tap_by_index

SpecRecorder == InitRecorder /\ [][NextRecorder]_vars

\* the last step was update_before
Updated == last_call.op = "update_before"

\* the text the last update_before parsed gave a list
ParsedToList ==
    /\ last_call.parsed # None
    /\ get_ios_elements_frame(last_call.parsed[1]).raised = ""

-----------------------------------------------------------------------------
(* Addressing failure through the executor's entry points *)

\* the task loop's use of the executor: the element list of the turn is set,
\* then the snippet of the turn is executed
NextCall ==
    \/ set_elem_list
    \/ tap_by_index
    \/ __call__

SpecCall == Init /\ [][NextCall]_vars

\* the last step asked the executor for an index: a by-index method, or
\* __call__ on a snippet that calls one
IndexRequested ==
    \/ last_call.op \in ByIndexOps
    \/ last_call.op = "__call__" /\ last_call.snippet # ""

\* C18: an index outside 1..len(elem_list) requested through the executor, by
\* a by-index method or through __call__, ends the call with a raised error,
\* not with a return value.
C18_AddressingFailureRaised ==
    (IndexRequested /\ ~index_in_range(last_call.index, Len(elem_list)))
        => last_call.raised # ""

\* what holds of the code: the by-index methods raise; __call__ returns an
\* error dictionary and posts nothing to the device
C18_CallReturnsErrorDictionary ==
    (IndexRequested /\ ~index_in_range(last_call.index, Len(elem_list))) =>
        /\ last_call.posted = <<>>
        /\ last_call.op \in ByIndexOps => last_call.raised # ""
        /\ last_call.op = "__call__" =>
              /\ last_call.raised = ""
              /\ current_return.operation = "error"
              /\ current_return.action = "error"

-----------------------------------------------------------------------------
(* The coordinate conversions on integers of any size.  Python divides two   *)
(* integers with `/` into the double nearest to the exact quotient (53       *)
(* significant bits, ties to the even significand), and int() drops the      *)
(* fraction.  An integer too wide for one machine word is kept as the pair   *)
(* <<hi, lo>> standing for hi * LIMB + lo with 0 <= lo < LIMB.               *)

\* 2^28
LIMB == 268435456

\* the hi part of 2^52
TWO_52_HI == 16777216

Wide(hi, lo) == <<hi, lo>>

\* n + d for d in {-1, 0, 1}
WidePlus(n, d) ==
    IF n[2] + d < 0 THEN <<n[1] - 1, LIMB - 1>>
    ELSE IF n[2] + d >= LIMB THEN <<n[1] + 1, 0>>
    ELSE <<n[1], n[2] + d>>

\* n * k for a small k > 0
WideTimes(n, k) == <<n[1] * k + (n[2] * k) \div LIMB, (n[2] * k) % LIMB>>

\* the narrow integer n as a pair
WideOf(n) == <<IF n >= 0 THEN 0 ELSE -1, IF n >= 0 THEN n ELSE LIMB + n>>

\* -n
WideNeg(n) == IF n[2] = 0 THEN <<-n[1], 0>> ELSE <<-n[1] - 1, LIMB - n[2]>>

\* a + b
WideAdd(a, b) == <<a[1] + b[1] + (a[2] + b[2]) \div LIMB, (a[2] + b[2]) % LIMB>>

\* the exact quotient q and remainder r of n by a small den > 0
WideDivMod(n, den) ==
    LET t == (n[1] % den) * LIMB + n[2]
    IN [q |-> <<n[1] \div den, t \div den>>, r |-> t % den]

\* a - b when the two are less than LIMB apart, else LIMB with the sign of a - b
WideMinus(a, b) ==
    IF a[1] = b[1] THEN a[2] - b[2]
    ELSE IF a[1] = b[1] + 1 /\ a[2] < b[2] THEN LIMB + a[2] - b[2]
    ELSE IF a[1] + 1 = b[1] /\ a[2] > b[2] THEN a[2] - b[2] - LIMB
    ELSE IF a[1] > b[1] THEN LIMB ELSE -LIMB

\* int(n / den) for n >= 0 below den * 2^54 and den = SCALE_FACTOR: the exact
\* quotient q + r/den rounded to a double, then truncated.  Below 2^52 doubles
\* are at most 1/2 apart and the fraction is dropped; from 2^52 they are 1
\* apart and a fraction above 1/2 rounds up; from 2^53 they are 2 apart, an
\* even q stays and an odd q moves to the neighbour the fraction is nearer
\* to, a tie going to the neighbour whose half is even.
int_of_nonneg_quotient(n, den) ==
    LET e == WideDivMod(n, den)
        q == e.q
        r == e.r
    IN IF q[1] < TWO_52_HI THEN q
       ELSE IF q[1] < 2 * TWO_52_HI
       THEN IF 2 * r > den THEN WidePlus(q, 1) ELSE q
       ELSE IF q[2] % 2 = 0 THEN q
       ELSE IF r > 0 THEN WidePlus(q, 1)
       ELSE IF (q[2] \div 2) % 2 = 0 THEN WidePlus(q, -1)
       ELSE WidePlus(q, 1)

\* int(n / den) for n of either sign: the division rounds a negative quotient
\* as it rounds its magnitude, and int() truncates toward zero
int_of_float_quotient(n, den) ==
    IF n[1] < 0 THEN WideNeg(int_of_nonneg_quotient(WideNeg(n), den))
    ELSE int_of_nonneg_quotient(n, den)

_logical_to_physical_wide_unscaled(x, y) == <<x, y>>

_physical_to_logical_wide_halved(x, y) ==
    <<int_of_float_quotient(x, 2), int_of_float_quotient(y, 2)>>

\* _physical_to_logical(x, y) on wide integers
_physical_to_logical_wide(x, y) ==
    <<int_of_float_quotient(x, SCALE_FACTOR), int_of_float_quotient(y, SCALE_FACTOR)>>

\* _logical_to_physical(x, y) on wide integers
_logical_to_physical_wide(x, y) ==
    <<WideTimes(x, SCALE_FACTOR), WideTimes(y, SCALE_FACTOR)>>

\* largest of the small coordinates, and how far from a power of two the wide
\* ones are taken
MaxCoord == 8
MaxOffset == 4

\* the hi parts where the spacing of doubles changes for the coordinate
\* (2^53, 2^54) or for its third (3 * 2^52, 3 * 2^53)
Thresholds == {2 * TWO_52_HI, 3 * TWO_52_HI, 4 * TWO_52_HI, 6 * TWO_52_HI}

\* screen coordinates, and integers around the thresholds
Coords ==
    {Wide(0, n) : n \in 0..MaxCoord}
        \cup {Wide(hi, lo) : hi \in Thresholds, lo \in 0..MaxOffset}
        \cup {Wide(hi - 1, LIMB - 1 - k) : hi \in Thresholds, k \in 0..MaxOffset}

\* below 2^54
Below2_54(n) == n[1] < 4 * TWO_52_HI

InitCoords ==
    /\ doc = EmptyDoc
    /\ clickable_list = <<>>
    /\ focusable_list = <<>>
    /\ returned = <<>>
    /\ ios_raised = ""
    /\ InitExecIdle
    /\ InitLoopIdle
    /\ InitFetchIdle
    /\ \E x \in Coords, y \in Coords : args = <<x, y>>
    /\ result = <<>>

\* _logical_to_physical(*_physical_to_logical(x, y))
round_trip ==
    /\ result = <<>>
    /\ LET l == _physical_to_logical_wide(args[1], args[2])
       IN result' = _logical_to_physical_wide(l[1], l[2])
    /\ UNCHANGED <<loopVars, doc, treeVars, execVars, fetchVars, args>>

NextCoords == round_trip

SpecCoords == InitCoords /\ [][NextCoords]_vars

\* |a - b| <= k
WithinOf(a, b, k) == WideMinus(a, b) <= k /\ WideMinus(b, a) <= k

\* the round trip of the narrow definitions, for coordinates of one word
NarrowRoundTrip(x, y) ==
    LET l == _physical_to_logical(x, y) IN _logical_to_physical(l[1], l[2])

C19_NarrowAgrees ==
    (result # <<>> /\ args[1][1] = 0 /\ args[2][1] = 0) =>
        result = <<Wide(0, NarrowRoundTrip(args[1][2], args[2][2])[1]),
                   Wide(0, NarrowRoundTrip(args[1][2], args[2][2])[2])>>

-----------------------------------------------------------------------------
(* parse_bounds on integers of any size.  An integer is the pair <<hi, lo>>   *)
(* standing for hi * LIMB + lo with 0 <= lo < LIMB, hi negative for a         *)
(* negative integer.  The text of a part is the decimal writing of an         *)
(* integer n; float() reads it as the double nearest to n and int() gives     *)
(* that double back as an integer.                                            *)

\* the double nearest to n, for 0 <= n < 2^54: exact below 2^53; from there the
\* doubles are 2 apart and an odd n goes to the neighbour whose half is even
NearestDouble(n) ==
    IF n[1] < 2 * TWO_52_HI \/ n[2] % 2 = 0 THEN n
    ELSE IF (n[2] \div 2) % 2 = 0 THEN WidePlus(n, -1)
    ELSE WidePlus(n, 1)

\* int(float(text)) for the decimal text of n
int_of_float_text(n) ==
    IF n[1] < 0 THEN WideNeg(NearestDouble(WideNeg(n))) ELSE NearestDouble(n)

\* the text of one part, n written in decimal
WTok(n) == [ok |-> TRUE, n |-> n, brace |-> FALSE, inf |-> FALSE]
WBTok(n) == [ok |-> TRUE, n |-> n, brace |-> TRUE, inf |-> FALSE]

\* "{{x, y}, {w, h}}" and "x,y,w,h" written from integers
NestedText(x, y, w, h) ==
    [nested |-> TRUE, parts |-> <<WBTok(x), WBTok(y), WBTok(w), WBTok(h)>>]
FlatText(x, y, w, h) ==
    [nested |-> FALSE, parts |-> <<WTok(x), WTok(y), WTok(w), WTok(h)>>]

\* the four conversions and the returned rectangle, as in RectOf
RectOfText(parts) ==
    IF \A i \in 1..4 : Parses(parts[i])
    THEN LET x == int_of_float_text(parts[1].n)
             y == int_of_float_text(parts[2].n)
             width == int_of_float_text(parts[3].n)
             height == int_of_float_text(parts[4].n)
         IN <<<<x, y>>, <<WideAdd(x, width), WideAdd(y, height)>>>>
    ELSE NoBox

\* parse_bounds(bounds_str) on such a text
parse_bounds_text(bounds_str) ==
    IF bounds_str = <<>> THEN NoBox
    ELSE LET b == bounds_str[1]
             parts == IF b.nested THEN StripBraces(b.parts) ELSE b.parts
         IN IF Len(parts) >= 4 THEN RectOfText(parts) ELSE NoBox

\* largest magnitude of the small integers written
MaxInt == 2

\* 2^53
TWO_53 == Wide(2 * TWO_52_HI, 0)

\* the integers written: small ones of both signs, and integers around 2^53
\* and -2^53
WrittenInts ==
    {WideOf(n) : n \in (-MaxInt)..MaxInt}
        \cup {WidePlus(TWO_53, -1), TWO_53, WidePlus(TWO_53, 1), Wide(2 * TWO_52_HI, 3),
              WideNeg(TWO_53), WideNeg(WidePlus(TWO_53, 1))}

\* |n| <= 2^53
ExactAsDouble(n) ==
    /\ WideMinus(n, TWO_53) <= 0
    /\ WideMinus(WideNeg(TWO_53), n) <= 0

InitBounds ==
    /\ doc = EmptyDoc
    /\ clickable_list = <<>>
    /\ focusable_list = <<>>
    /\ returned = <<>>
    /\ ios_raised = ""
    /\ InitExecIdle
    /\ InitLoopIdle
    /\ InitFetchIdle
    /\ \E x \in WrittenInts, y \in WrittenInts, w \in WrittenInts, h \in WrittenInts :
          args = <<x, y, w, h>>
    /\ result = <<>>

\* parse_bounds on the nested text and on the flat text of the same integers
parse_both_forms ==
    /\ result = <<>>
    /\ result' = <<parse_bounds_text(<<NestedText(args[1], args[2], args[3], args[4])>>),
                   parse_bounds_text(<<FlatText(args[1], args[2], args[3], args[4])>>)>>
    /\ UNCHANGED <<loopVars, doc, treeVars, execVars, fetchVars, args>>

NextBounds == parse_both_forms

SpecBounds == InitBounds /\ [][NextBounds]_vars

\* ((x, y), (x + width, y + height)) of the arguments
ExpectedRect ==
    <<<<args[1], args[2]>>, <<WideAdd(args[1], args[3]), WideAdd(args[2], args[4])>>>>

\* C20 as stated: for all integers x, y, width, height the nested text and the
\* flat text give the same rectangle ((x, y), (x + width, y + height)).
C20_Original_FormsDecodeAnyInteger ==
    result # <<>> => (result[1] = ExpectedRect /\ result[2] = ExpectedRect)

\* C20, amended: for all integers x, y, width, height of magnitude at most
\* 2^53 the nested text and the flat text give the same rectangle
\* ((x, y), (x + width, y + height)).
C20_FormsDecodeExactIntegers ==
    (result # <<>> /\ \A i \in 1..4 : ExactAsDouble(args[i]))
        => (result[1] = ExpectedRect /\ result[2] = ExpectedRect)

\* whatever the integers, the two forms give the same result
C20_FormsAgree ==
    result # <<>> => result[1] = result[2]

\* on small integers the narrow parse_bounds gives the same rectangle
C20_NarrowAgrees ==
    (result # <<>> /\ \A i \in 1..4 : args[i][1] \in {-1, 0} /\ WideMinus(args[i], WideOf(0)) \in (-MaxInt - 1)..(MaxInt + 1)) =>
        LET n(i) == WideMinus(args[i], WideOf(0))
            nested == parse_bounds(<<Nested(n(1), n(2), n(3), n(4))>>)
            flat == parse_bounds(<<Flat(n(1), n(2), n(3), n(4))>>)
        IN /\ nested = flat
           /\ result[1] = <<<<WideOf(nested[1][1]), WideOf(nested[1][2])>>,
                            <<WideOf(nested[2][1]), WideOf(nested[2][2])>>>>

\* a negative x, a width of 2^53 and a negative height, decoded exactly
C20_Witness ==
    /\ result # <<>>
    /\ args[1] = WideOf(-2)
    /\ args[2] = WideOf(1)
    /\ args[3] = TWO_53
    /\ args[4] = WideOf(-1)
    /\ result[1] = <<<<WideOf(-2), WideOf(1)>>, <<WidePlus(WidePlus(TWO_53, -1), -1), WideOf(0)>>>>
    /\ result[2] = result[1]

-----------------------------------------------------------------------------
(* The overlapping button and text field *)

\* C21: on a document with the button at ((100,100),(200,140)) and the text
\* field at ((102,102),(198,138)), get_ios_elements returns exactly one
\* element and it is the button, whichever of the two comes first.
C21_OverlapYieldsTheButton ==
    (doc \in OverlapDocs /\ Parsed) =>
        /\ Len(LastRet) = 1
        /\ doc.nodes[LastRet[1].src_node].tag = Button

\* what holds of the code: exactly one element, the one of the two that comes
\* first in the document
C21_OverlapYieldsTheFirst ==
    (doc \in OverlapDocs /\ Parsed) =>
        /\ Len(LastRet) = 1
        /\ LastRet[1].src_node = 2

\* C24: the list get_ios_elements returns is the list of the clickable pass,
\* and no element of it carries the attrib "focusable".
C24_ReturnedIsClickablePass ==
    Parsed =>
        /\ LastRet = clickable_list
        /\ \A i \in 1..Len(LastRet) : LastRet[i].attrib # "focusable"

\* the focusable pass found two elements and the merge dropped both
C24_Witness ==
    /\ Parsed
    /\ Len(focusable_list) = 2
    /\ \A i \in 1..2 : focusable_list[i].attrib = "focusable"
    /\ Len(LastRet) = 2

\* C25: within a step the executor resolves an index against the list the
\* labels were drawn from: between the drawing in update_before and the calls
\* of the code snippet the list is neither rebuilt nor modified, and a tap on
\* index i goes to the center of the element that was labeled i.
C25_ExecutorUsesLabeledList ==
    /\ elem_list = result
    /\ (last_call.op = "tap_by_index" /\ last_call.raised = "") =>
          /\ last_call.index \in 1..Len(result)
          /\ \A c \in 1..2 :
                last_call.posted[1].from[c] =
                    last_call.posted[1].den * Mid(result[last_call.index].bbox)[c]

\* labels 1 and 2 were drawn and the snippet tapped 2
C25_Witness ==
    /\ last_call.op = "tap_by_index"
    /\ last_call.raised = ""
    /\ last_call.index = 2
    /\ Len(result) = 2

\* C23 as stated: for all integers x, y >= 0 the physical-to-logical-to-physical
\* round trip differs from (x, y) by at most 1 unit in each coordinate.
C23_Original_RoundTripWithinOne ==
    result # <<>> => \A i \in 1..2 : WithinOf(result[i], args[i], 1)

\* C23, amended: for all integers 0 <= x, y < 2^54 the round trip comes back
\* at most 2 units away in each coordinate.
C23_RoundTripWithinTwo ==
    \A i \in 1..2 :
       (result # <<>> /\ Below2_54(args[i])) =>
           /\ WideMinus(args[i], result[i]) \in -2..2
           /\ WideMinus(result[i], args[i]) \in -2..2

\* more than 1 unit is lost: (2, 8) comes back as (0, 6)
C23_Witness ==
    /\ result = <<Wide(0, 0), Wide(0, 6)>>
    /\ args = <<Wide(0, 2), Wide(0, 8)>>

-----------------------------------------------------------------------------
(* Scale-factor detection (labeling.py, recorder.py).  An image is <<>> when *)
(* cv2.imread returns None, else <<width>> in pixels.  A scale factor is the *)
(* fraction <<num, den>>; <<>> is None.                                      *)

IOS_SCALE_FACTOR == 3

Abs(n) == IF n >= 0 THEN n ELSE -n

\* the fractions are equal
SameFactor(a, b) == a # <<>> /\ b # <<>> /\ a[1] * b[2] = b[1] * a[2]

\* labeling._get_scale_factor(img_path): abs(width / 3 - 393) < 10 is
\* |width - 3 * 393| < 30, abs(width / 2 - 375) < 10 is |width - 2 * 375| < 20
_get_scale_factor(img) ==
    IF img = <<>> THEN <<IOS_SCALE_FACTOR, 1>>
    ELSE LET width == img[1]
         IN IF width >= 1100
            THEN IF Abs(width - 3 * 393) < 3 * 10 THEN <<3, 1>>
                 ELSE IF Abs(width - 3 * 390) < 3 * 10 THEN <<3, 1>>
                 ELSE IF Abs(width - 2 * 375) < 2 * 10 THEN <<2, 1>>
                 ELSE <<width, 375>>
            ELSE <<1, 1>>

\* `for logical_width in [375, 390, 393]`: the first logical width with
\* abs(width / logical_width - 3.0) < 0.1, that is
\* |10 * width - 30 * logical_width| < logical_width; <<>> when there is none
RECURSIVE first_matching_width(_, _, _)
first_matching_width(width, logical_widths, k) ==
    IF k > Len(logical_widths) THEN <<>>
    ELSE IF Abs(10 * width - 30 * logical_widths[k]) < logical_widths[k]
    THEN <<logical_widths[k]>>
    ELSE first_matching_width(width, logical_widths, k + 1)

\* the detection IOSRecorder.update_before performs before it draws labels:
\* the scale_factor it hands to draw_bbox_multi_ios
recorder_scale_factor(img) ==
    IF img = <<>> THEN <<>>
    ELSE LET width == img[1]
             match == first_matching_width(width, <<375, 390, 393>>, 1)
         IN IF width >= 1100
            THEN IF match # <<>> THEN <<width, match[1]>> ELSE <<width, 375>>
            ELSE <<1, 1>>

\* the scale factor draw_bbox_multi_ios works with
draw_scale_factor(img, scale_factor) ==
    IF scale_factor = <<>> THEN _get_scale_factor(img) ELSE scale_factor

\* widths of the screenshots: 640 and 750 (2x phones) and every width from 1080
\* to MaxWidth
MaxWidth == 1300
Images == {<<>>, <<640>>, <<750>>} \cup {<<w>> : w \in 1080..MaxWidth}

InitScale ==
    /\ doc = EmptyDoc
    /\ clickable_list = <<>>
    /\ focusable_list = <<>>
    /\ returned = <<>>
    /\ ios_raised = ""
    /\ InitExecIdle
    /\ InitLoopIdle
    /\ InitFetchIdle
    /\ \E img \in Images : args = <<img>>
    /\ result = <<>>

\* both detections on the screenshot
detect_scale_factor ==
    /\ result = <<>>
    /\ result' = [labeling |-> _get_scale_factor(args[1]),
                  recorder |-> recorder_scale_factor(args[1]),
                  drawn |-> draw_scale_factor(args[1], recorder_scale_factor(args[1]))]
    /\ UNCHANGED <<loopVars, doc, treeVars, execVars, fetchVars, args>>

NextScale == detect_scale_factor

SpecScale == InitScale /\ [][NextScale]_vars

\* C22: on a screenshot 1179 pixels wide the detection gives exactly 3.0, in
\* labeling._get_scale_factor and in the recorder before it draws labels.
C22_Width1179GivesThree ==
    (result # <<>> /\ args[1] = <<1179>>) =>
        /\ SameFactor(result.labeling, <<3, 1>>)
        /\ SameFactor(result.recorder, <<3, 1>>)

\* what holds of the code: _get_scale_factor gives 3.0, the recorder gives
\* 1179 / 390 and the labels are drawn with that
C22_RecorderTakes390 ==
    (result # <<>> /\ args[1] = <<1179>>) =>
        /\ SameFactor(result.labeling, <<3, 1>>)
        /\ result.recorder = <<1179, 390>>
        /\ result.drawn = <<1179, 390>>

-----------------------------------------------------------------------------
(* draw_bbox_multi_ios (labeling.py).  An entry of elem_list is a record     *)
(* with has_bbox (FALSE: reading elem.bbox raises AttributeError) and bbox;  *)
(* <<>> stands for a value that is false in a condition (None, ()).  The     *)
(* drawing routine is an input: raises holds the positions at which it       *)
(* raises.                                                                   *)

\* a validation check that fails: `count += 1; continue`
after_skip_same_count(count) == count

after_skip(count) == count + 1

\* int(coordinate * scale_factor)
scaled(coordinate, scale_factor) ==
    IntOfQuotient(coordinate * scale_factor[1], scale_factor[2])

\* -1000000 < coord < 1000000
reasonable(coord) == -1000000 < coord /\ coord < 1000000

\* the try block for one element: "skip" when a validation check fails,
\* "raise" when an exception reaches the except clause, else "draw"
label_path(elem, scale_factor, draw_raises) ==
    IF ~elem.has_bbox THEN "raise"
    ELSE IF elem.bbox = <<>> \/ Len(elem.bbox) < 2 THEN "skip"
    ELSE LET top_left == elem.bbox[1]
             bottom_right == elem.bbox[2]
         IN IF top_left = <<>> \/ bottom_right = <<>> THEN "skip"
            ELSE IF Len(top_left) < 2 THEN "skip"
            ELSE IF Len(bottom_right) < 2 THEN "skip"
            ELSE LET left == scaled(top_left[1], scale_factor)
                     top == scaled(top_left[2], scale_factor)
                     right == scaled(bottom_right[1], scale_factor)
                     bottom == scaled(bottom_right[2], scale_factor)
                 IN IF \E coord \in {left, top, right, bottom} : ~reasonable(coord)
                    THEN "skip"
                    ELSE IF right <= left \/ bottom <= top THEN "skip"
                    ELSE IF draw_raises THEN "raise"
                    ELSE "draw"

\* the loop `for elem in elem_list` from position k on: counts collects the
\* value of count when each element is taken, labels the labels drawn with the
\* position of their element
RECURSIVE label_loop(_, _, _, _, _, _, _)
label_loop(elem_list_, k, count, scale_factor, raises, counts, labels) ==
    IF k > Len(elem_list_) THEN [returned |-> "imgcv", count |-> count,
                                 counts |-> counts, labels |-> labels]
    ELSE LET path == label_path(elem_list_[k], scale_factor, k \in raises)
         IN IF path = "skip"
            THEN label_loop(elem_list_, k + 1, after_skip(count), scale_factor, raises,
                            Append(counts, count), labels)
            ELSE label_loop(elem_list_, k + 1, count + 1, scale_factor, raises,
                            Append(counts, count),
                            IF path = "draw"
                            THEN Append(labels, [label |-> count, position |-> k])
                            ELSE labels)

\* draw_bbox_multi_ios(img_path, output_path, elem_list, scale_factor=...)
draw_bbox_multi_ios(img, elem_list_, scale_factor, raises) ==
    IF img = <<>> THEN [returned |-> "None", count |-> 0, counts |-> <<>>, labels |-> <<>>]
    ELSE label_loop(elem_list_, 1, 1, draw_scale_factor(img, scale_factor), raises,
                    <<>>, <<>>)

\* longest element list drawn
MaxLabeled == 3

\* entries: no bbox attribute, bbox None, one corner only, a corner None, a
\* corner of one number, a box far off the screen at the larger scales, a box
\* without area, two boxes that are drawn
LabelEntries ==
    {[has_bbox |-> FALSE, bbox |-> <<>>]}
        \cup {[has_bbox |-> TRUE, bbox |-> b] :
                 b \in {<<>>, << <<0, 0>> >>, << <<>>, <<10, 10>> >>,
                        << <<5>>, <<10, 10>> >>,
                        << <<400000, 0>>, <<400010, 10>> >>,
                        << <<10, 10>>, <<10, 20>> >>,
                        << <<0, 0>>, <<10, 10>> >>,
                        << <<20, 20>>, <<40, 30>> >>}}

RECURSIVE ListsOf(_, _)
ListsOf(S, n) ==
    IF n = 0 THEN {<<>>}
    ELSE ListsOf(S, n - 1) \cup {Append(l, e) : l \in ListsOf(S, n - 1), e \in S}

InitLabel ==
    /\ doc = EmptyDoc
    /\ clickable_list = <<>>
    /\ focusable_list = <<>>
    /\ returned = <<>>
    /\ ios_raised = ""
    /\ InitExecIdle
    /\ InitLoopIdle
    /\ InitFetchIdle
    /\ \E labeled \in ListsOf(LabelEntries, MaxLabeled) :
       \E img \in {<<>>, <<1179>>} :
       \E scale_factor \in {<<>>, <<1, 1>>, <<1179, 390>>} :
       \E raises \in SUBSET (1..Len(labeled)) :
          args = <<img, labeled, scale_factor, raises>>
    /\ result = <<>>

label_screenshot ==
    /\ result = <<>>
    /\ result' = draw_bbox_multi_ios(args[1], args[2], args[3], args[4])
    /\ UNCHANGED <<loopVars, doc, treeVars, execVars, fetchVars, args>>

NextLabel == label_screenshot

SpecLabel == InitLabel /\ [][NextLabel]_vars

\* C26: the label drawn for an element is its 1-based position in elem_list:
\* the counter advances by exactly one for every element, whether it is drawn,
\* skipped by a validation check or ends in the except clause.
C26_LabelIsPosition ==
    (result # <<>> /\ result.returned = "imgcv") =>
        /\ result.counts = [k \in 1..Len(args[2]) |-> k]
        /\ result.count = Len(args[2]) + 1
        /\ \A i \in 1..Len(result.labels) :
              result.labels[i].label = result.labels[i].position

\* after an element without a bbox (the except clause) and a box without area
\* (skipped), the third element is drawn with label 3
C26_Witness ==
    /\ result # <<>>
    /\ Len(args[2]) = 3
    /\ ~args[2][1].has_bbox
    /\ args[2][2].bbox = << <<10, 10>>, <<10, 20>> >>
    /\ args[4] = {}
    /\ result.labels = <<[label |-> 3, position |-> 3]>>

-----------------------------------------------------------------------------
(* The pointer coordinate of tap_by_index (executor.py, actions.py) on       *)
(* integers of any size.  The element's box is ((a, a), (b, b)): both axes   *)
(* run the same expressions.                                                 *)

\* the handler sending the coordinate as it received it
pointer_coordinate_unscaled(x) == x

\* IOSActionHandler.tap: "x": x / SCALE_FACTOR.  The numerator is what
\* _logical_to_physical returned, a multiple of SCALE_FACTOR, so the double is
\* a whole number and is kept as an integer
pointer_coordinate(x) == int_of_float_quotient(x, SCALE_FACTOR)

\* (tl[0] + br[0]) // 2
floor_midpoint(a, b) == WideDivMod(WideAdd(a, b), 2).q

\* tap_by_index on the element with the box ((a, a), (b, b)): the pointerMove
\* coordinates posted
tap_by_index_pointer(a, b) ==
    LET logical == <<floor_midpoint(a, b), floor_midpoint(a, b)>>
        physical == _logical_to_physical_wide(logical[1], logical[2])
    IN <<pointer_coordinate(physical[1]), pointer_coordinate(physical[2])>>

InitPointer ==
    /\ doc = EmptyDoc
    /\ clickable_list = <<>>
    /\ focusable_list = <<>>
    /\ returned = <<>>
    /\ ios_raised = ""
    /\ InitExecIdle
    /\ InitLoopIdle
    /\ InitFetchIdle
    /\ \E a \in WrittenInts, b \in WrittenInts :
          /\ WideMinus(b, a) > 0
          /\ args = <<a, b>>
    /\ result = <<>>

\* the tap on the element, next to the round trip of (a, b) from logical to
\* physical and back
tap_pointer ==
    /\ result = <<>>
    /\ LET p == _logical_to_physical_wide(args[1], args[2])
       IN result' = [sent |-> tap_by_index_pointer(args[1], args[2]),
                     back |-> _physical_to_logical_wide(p[1], p[2])]
    /\ UNCHANGED <<loopVars, doc, treeVars, execVars, fetchVars, args>>

NextPointer == tap_pointer

SpecPointer == InitPointer /\ [][NextPointer]_vars

-----------------------------------------------------------------------------
(* The agent loop (run_ios_agent.py) around IOSTask.run_step (task.py) and   *)
(* the recorder's step records (recorder.py).  What the device, the agent    *)
(* and the file system do in a step is an input of the step.                 *)

\* the recorder dumping every record it holds
_save_trace_all(trace_, contents_) == trace_ \o contents_

\* IOSRecorder._save_trace: the last record is appended as one line
_save_trace(trace_, contents_) ==
    IF contents_ # <<>> THEN Append(trace_, contents_[Len(contents_)]) ELSE trace_

\* IOSRecorder.update_after_cot, up to the call of _save_trace
update_after_cot(contents_, exe_res) ==
    IF contents_ # <<>>
    THEN [contents_ EXCEPT ![Len(contents_)].execution_result = exe_res]
    ELSE contents_

\* what the try block of run_step makes of the step: the agent call raised
\* ("agent_raises"), no snippet was found ("no_snippet"), the executor acted
\* ("do"), the executor caught an exception of the snippet ("error"), the
\* snippet called finish ("finish"), or called finish and then raised
\* ("finish_error")
StepOutcomes == {"agent_raises", "no_snippet", "do", "error", "finish", "finish_error"}

\* exe_res after the try block of run_step (its operation; "None" is None)
exe_res_of(outcome) ==
    CASE outcome = "agent_raises" -> "None"
      [] outcome = "no_snippet" -> "skip"
      [] outcome = "do" -> "do"
      [] outcome = "finish" -> "finish"
      [] OTHER -> "error"

\* IOSExecutor.finish was called in the step
finish_called(outcome) == outcome \in {"finish", "finish_error"}

\* IOSTask.run_step: before_ok is FALSE when update_before raises (before it
\* appends the step record), save_ok is FALSE when writing the trace raises
run_step(before_ok, outcome, save_ok) ==
    IF ~before_ok
    THEN [raised |-> "Exception", turn_number |-> turn_number, contents |-> contents,
          trace |-> trace, is_finish |-> is_finish]
    ELSE LET step == [index |-> turn_number, execution_result |-> "unset"]
             updated == update_after_cot(Append(contents, step), exe_res_of(outcome))
             finished == is_finish \/ finish_called(outcome)
         IN IF ~save_ok
            THEN [raised |-> "Exception", turn_number |-> turn_number, contents |-> updated,
                  trace |-> trace, is_finish |-> finished]
            ELSE [raised |-> "", turn_number |-> turn_number + 1, contents |-> updated,
                  trace |-> _save_trace(trace, updated), is_finish |-> finished]

\* the while test with the bound included
loop_condition_inclusive(round_count_, max_rounds_) == round_count_ <= max_rounds_

\* while round_count < args.max_rounds
loop_condition(round_count_, max_rounds_) == round_count_ < max_rounds_

\* largest args.max_rounds
MaxRounds == 3

InitLoop ==
    /\ doc = EmptyDoc
    /\ clickable_list = <<>>
    /\ focusable_list = <<>>
    /\ returned = <<>>
    /\ ios_raised = ""
    /\ elem_list = <<>>
    /\ current_return = [operation |-> "none"]
    /\ last_call = [op |-> "none"]
    /\ InitFetchIdle
    /\ InitPureIdle
    /\ loop_pc = "loop"
    /\ max_rounds \in 0..MaxRounds
    /\ round_count = 0
    /\ task_complete = FALSE
    /\ is_finish = FALSE
    /\ turn_number = 0
    /\ contents = <<>>
    /\ trace = <<>>
    /\ step_raised = ""

\* one pass of the body of the while loop: after_ok is FALSE when time.sleep
\* or the screenshot taken after finish raises
loop_body ==
    /\ loop_pc = "loop"
    /\ loop_condition(round_count, max_rounds)
    /\ round_count' = round_count + 1
    /\ \E before_ok \in BOOLEAN, outcome \in StepOutcomes, save_ok \in BOOLEAN,
          after_ok \in BOOLEAN :
       \E r \in {run_step(before_ok, outcome, save_ok)} :
          /\ turn_number' = r.turn_number
          /\ contents' = r.contents
          /\ trace' = r.trace
          /\ is_finish' = r.is_finish
          /\ step_raised' = r.raised
          /\ IF r.raised # "" \/ ~after_ok
             THEN loop_pc' = "done" /\ task_complete' = task_complete
             ELSE IF r.is_finish
             THEN loop_pc' = "done" /\ task_complete' = TRUE
             ELSE loop_pc' = "loop" /\ task_complete' = task_complete
    /\ UNCHANGED <<pureVars, doc, treeVars, execVars, fetchVars, max_rounds>>

\* the while test fails
loop_exit ==
    /\ loop_pc = "loop"
    /\ ~loop_condition(round_count, max_rounds)
    /\ loop_pc' = "done"
    /\ UNCHANGED <<pureVars, doc, treeVars, execVars, fetchVars, max_rounds, round_count,
                   task_complete, is_finish, turn_number, contents, trace, step_raised>>

NextLoop ==
    \/ loop_body
    \/ loop_exit

SpecLoop == InitLoop /\ [][NextLoop]_vars

\* the interpreter keeps running main until it returns
SpecLoopFair == SpecLoop /\ WF_vars(NextLoop)

\* the run_step calls made so far that returned: main counts the calls it
\* makes and stops at the first that raises
ReturnedSteps == IF step_raised = "" THEN round_count ELSE round_count - 1

\* C28: after k calls of run_step that returned, turn_number is k, contents
\* holds k step records with index 0..k-1 in order, and k lines were appended
\* to the trace, the steps whose agent call or snippet raised included.
C28_OneRecordPerReturnedStep ==
    step_raised = "" =>
        /\ turn_number = ReturnedSteps
        /\ Len(contents) = ReturnedSteps
        /\ \A i \in 1..Len(contents) : contents[i].index = i - 1
        /\ Len(trace) = ReturnedSteps
        /\ trace = contents

\* three steps returned, the second with the agent call raising
C28_Witness ==
    /\ step_raised = ""
    /\ round_count = 3
    /\ contents[2].execution_result = "None"
    /\ contents[3].execution_result = "do"
    /\ Len(trace) = 3

\* the loop has been left
Stopped == loop_pc = "done"

\* C29: the agent loop always terminates: it makes at most max_rounds steps,
\* it is left at the end of the first step after which is_finish is set, and
\* only then is the task reported completed, and it is left at the first step
\* that raises.
C29_LoopTerminates ==
    /\ <>Stopped
    /\ [](/\ round_count <= max_rounds
          /\ ~Stopped => (~is_finish /\ step_raised = "")
          /\ task_complete => (Stopped /\ is_finish /\ step_raised = ""))

\* the loop was left as completed after two of three rounds
C29_Witness ==
    /\ Stopped
    /\ task_complete
    /\ round_count = 2
    /\ max_rounds = 3

-----------------------------------------------------------------------------
(* The leading-zero normalisation of IOSExecutor.__call__ (executor.py).  A  *)
(* snippet is a sequence of characters, each a string of length one.         *)

\* \d and \w on the characters of the model
DigitChars == {"0", "1", "2", "3", "4", "5", "6", "7", "8", "9"}
WordChars == DigitChars \cup {"a", "e", "f", "h", "i", "n", "p", "s", "t", "x", "_"}

\* \b in front of the word character at position i
word_starts(s, i) == i = 1 \/ s[i - 1] \notin WordChars

\* the zeros from position i on: how many 0+ can take
RECURSIVE zero_run(_, _)
zero_run(s, i) == IF i <= Len(s) /\ s[i] = "0" THEN 1 + zero_run(s, i + 1) ELSE 0

\* re.sub(r'\b0+(\d)', r'\1', s) from position i on: at a word start, zeros and
\* the digit after them are replaced by that digit; when no digit follows the
\* zeros, 0+ gives its last zero to (\d)
RECURSIVE re_sub_leading_zeros(_, _)
re_sub_leading_zeros(s, i) ==
    IF i > Len(s) THEN <<>>
    ELSE IF s[i] = "0" /\ word_starts(s, i)
    THEN LET j == i + zero_run(s, i)
         IN IF j <= Len(s) /\ s[j] \in DigitChars
            THEN <<s[j]>> \o re_sub_leading_zeros(s, j + 1)
            ELSE IF j - i >= 2 THEN <<"0">> \o re_sub_leading_zeros(s, j)
            ELSE <<s[i]>> \o re_sub_leading_zeros(s, i + 1)
    ELSE <<s[i]>> \o re_sub_leading_zeros(s, i + 1)

\* code_snippet = re.sub(r'\b0+(\d)', r'\1', code_snippet)
normalised(code_snippet) == re_sub_leading_zeros(code_snippet, 1)

\* the snippet fn("literal") for text and finish, fn(digits) for tap
snippet_text(fn, written) ==
    CASE fn = "text" -> <<"t", "e", "x", "t", "(", "\"">> \o written \o <<"\"", ")">>
      [] fn = "finish" -> <<"f", "i", "n", "i", "s", "h", "(", "\"">> \o written \o <<"\"", ")">>
      [] OTHER -> <<"t", "a", "p", "(">> \o written \o <<")">>

\* exec: the argument the function receives, the characters of the string
\* literal for text and finish, the digits of the integer literal for tap
passed_argument(fn, code_snippet) ==
    LET open == CHOOSE i \in 1..Len(code_snippet) : code_snippet[i] = "("
        skip == IF fn = "tap" THEN 0 ELSE 1
    IN SubSeq(code_snippet, open + 1 + skip, Len(code_snippet) - 1 - skip)

\* longest literal written in a snippet
MaxLiteral == 3

\* string literals over a zero, another digit, a letter and a space; index
\* literals over the two digits
Literals == ListsOf({"0", "5", "a", " "}, MaxLiteral)
IndexLiterals == ListsOf({"0", "5"}, MaxLiteral) \ {<<>>}

InitSnippet ==
    /\ doc = EmptyDoc
    /\ clickable_list = <<>>
    /\ focusable_list = <<>>
    /\ returned = <<>>
    /\ ios_raised = ""
    /\ InitExecIdle
    /\ InitLoopIdle
    /\ InitFetchIdle
    /\ \/ \E fn \in {"text", "finish"}, written \in Literals : args = <<fn, written>>
       \/ \E written \in IndexLiterals : args = <<"tap", written>>
    /\ result = <<>>

\* IOSExecutor.__call__ on the snippet, up to the call of the function
call_snippet ==
    /\ result = <<>>
    /\ result' = [passed |-> passed_argument(args[1], normalised(snippet_text(args[1], args[2])))]
    /\ UNCHANGED <<loopVars, doc, treeVars, execVars, fetchVars, args>>

NextSnippet == call_snippet

SpecSnippet == InitSnippet /\ [][NextSnippet]_vars

\* C30: the normalisation changes integer index arguments only: the string
\* passed to text() or finish() is the string literal written in the snippet,
\* also when the literal holds digit groups that start with 0.
C30_StringLiteralPassedAsWritten ==
    (result # <<>> /\ args[1] \in {"text", "finish"}) => result.passed = args[2]

\* what holds of the code: an index written with leading zeros is passed
\* without them, and a string literal is passed as the normalisation leaves it
C30_LiteralPassedNormalised ==
    result # <<>> =>
        /\ result.passed = re_sub_leading_zeros(args[2], 1)
        /\ args = <<"tap", <<"0", "0", "5">> >> => result.passed = <<"5">>
        /\ args = <<"text", <<"a", " ", "0">> >> => result.passed = args[2]
        /\ args = <<"text", <<" ", "0", "5">> >> => result.passed = <<" ", "5">>

=============================================================================
